---- MODULE Spec2Model ----
(***************************************************************************)
(* WalletManager (src/src/utils/wallet.ts): the account registry, the      *)
(* transaction ledger, the two send paths (EVM and Solana), the balance    *)
(* query and the airdrop, as a state machine over the suspension points    *)
(* (await) of its async methods; and the account-creation handler of the   *)
(* App component (src/App.tsx) that calls it.                              *)
(***************************************************************************)
EXTENDS Integers, Sequences, FiniteSets, TLC

\* ------------------------------------------------------------------ bounds
MaxAccounts == 2
MaxTx == 2
MaxTxInputs == 1
MaxIndex == 1
MaxBal == 1
MaxClock == 1

\* ------------------------------------------------------------- input sets
\* call slots: two calls can be suspended at the same time
Procs == {1, 2}
Chains == {"ethereum", "solana"}
Names == {"A", "B"}
Mnemonics == {"m1"}
\* the phrases of the specification that compares derivations
AllMnemonics == {"m1", "m2"}
\* accountIndex is any number the caller passes; -1 is one the path syntax rejects
Indices == (-1)..MaxIndex

\* ------------------------------------------------------ derivation helpers
\* `${blockchain}-${accountIndex}`
AccountId(blockchain, accountIndex) == <<blockchain, accountIndex>>

\* bip39.mnemonicToSeed: the seed is a function of the phrase alone
mnemonicToSeed(mnemonic) == [seedOf |-> mnemonic]

\* slip: the Solana template with a non-hardened final index
DerivationPathUnhardened(blockchain, accountIndex) ==
  IF blockchain = "ethereum"
    THEN [purpose |-> 44, coin |-> 60, account |-> 0, change |-> 0,
          changeHardened |-> FALSE, index |-> accountIndex, indexHardened |-> FALSE]
    ELSE [purpose |-> 44, coin |-> 501, account |-> 0, change |-> 0,
          changeHardened |-> TRUE, index |-> accountIndex, indexHardened |-> FALSE]

\* the two fixed path templates, instantiated with the index
DerivationPath(blockchain, accountIndex) ==
  IF blockchain = "ethereum"
    THEN [purpose |-> 44, coin |-> 60, account |-> 0, change |-> 0,
          changeHardened |-> FALSE, index |-> accountIndex, indexHardened |-> FALSE]
    ELSE [purpose |-> 44, coin |-> 501, account |-> 0, change |-> 0,
          changeHardened |-> TRUE, index |-> accountIndex, indexHardened |-> TRUE]

\* hdNode.derivePath(path) rejects a path whose index is not a string of digits
derivePathFails(path) == path.index < 0

\* hdNode.derivePath(path).privateKey: 32 bytes determined by (seed, path)
derivePath(seed, path) == [bytes |-> 32, seed |-> seed, path |-> path]

\* slip: hex text without its leading zero byte
toHexUnpadded(keyBytes) == [hex |-> [keyBytes EXCEPT !.bytes = @ - 1]]

\* Buffer.from(bytes).toString("hex") and Buffer.from(hex, "hex")
toHex(keyBytes) == [hex |-> keyBytes]
fromHex(hexString) == hexString.hex

\* address strings: a format, a length (hex digits after 0x, or decoded
\* Base58 bytes) and the key they encode
EthAddressOf(keyBytes) == [fmt |-> "0xhex", len |-> 40, key |-> keyBytes]
\* Keypair.fromSeed(bytes).publicKey.toString()
SolAddressOf(keyBytes) == [fmt |-> "b58", len |-> 32, key |-> keyBytes]

\* a stored private key overwritten with other, well-formed key material
AlteredKeyBytes ==
  [bytes |-> 32, seed |-> [seedOf |-> "altered"], path |-> DerivationPath("solana", 0)]

\* ------------------------------------------------------- recipient strings
NoKey == [bytes |-> 0, seed |-> [seedOf |-> ""], path |-> DerivationPath("solana", 0)]
EmptyString == [fmt |-> "empty", len |-> 0, key |-> NoKey]
ToAddresses ==
  { EmptyString,
    [fmt |-> "0xhex", len |-> 40, key |-> NoKey],
    [fmt |-> "0xhex", len |-> 39, key |-> NoKey],
    [fmt |-> "0xhex", len |-> 41, key |-> NoKey],
    [fmt |-> "0xother", len |-> 40, key |-> NoKey],
    [fmt |-> "b58", len |-> 32, key |-> NoKey],
    [fmt |-> "b58", len |-> 31, key |-> NoKey] }

\* slip: the pattern without its end anchor
isValidEthereumAddressUnanchored(address) == address.fmt = "0xhex" /\ address.len >= 40

\* /^0x[a-fA-F0-9]{40}$/.test(address)
isValidEthereumAddress(address) == address.fmt = "0xhex" /\ address.len = 40

\* new PublicKey(address) succeeds: Base58 text decoding to 32 bytes
isValidSolanaAddress(address) == address.fmt = "b58" /\ address.len = 32

\* ----------------------------------------------------------- amount strings
\* kind "dec" is a positive decimal; tenths is its value in tenths of the
\* sending chain's smallest unit (wei or lamport)
Amounts ==
  { [kind |-> "empty", tenths |-> 0],
    [kind |-> "nan", tenths |-> 0],
    [kind |-> "neg", tenths |-> -10],
    [kind |-> "zero", tenths |-> 0],
    [kind |-> "dec", tenths |-> 5],
    [kind |-> "dec", tenths |-> 10] }
\* the inputs of the interleaved specifications: one well-formed recipient
\* per chain, an amount of one unit, one name, index 0
CoreToAddresses ==
  { [fmt |-> "0xhex", len |-> 40, key |-> NoKey],
    [fmt |-> "b58", len |-> 32, key |-> NoKey] }
CoreAmounts == { [kind |-> "dec", tenths |-> 10] }
\* milliseconds that pass between the two Date.now() reads of a send
Ticks == {0, 1}
SameTick == {0}
CoreNames == {"A"}
CoreIndices == {0}

\* slip: `< 0` for `<= 0`
parseFloatLtZero(amount) == amount.kind \notin {"empty", "nan"} /\ amount.tenths < 0

\* parseFloat(amount) is NaN
parseFloatIsNaN(amount) == amount.kind \in {"empty", "nan"}
\* parseFloat(amount) <= 0 ; NaN compares false with everything
parseFloatLeqZero(amount) == ~parseFloatIsNaN(amount) /\ amount.tenths <= 0

\* ethers.parseEther(amount): throws on non-numeric text and on more
\* decimals than the unit has; otherwise the exact number of wei
parseEtherFails(amount) == amount.kind # "dec" \/ amount.tenths % 10 # 0
parseEther(amount) == amount.tenths \div 10

\* slip: the balance compared with the rounded-down lamports
balanceBelowFloorLamports(balance, amount) ==
  amount.kind \notin {"empty", "nan"} /\ balance < amount.tenths \div 10

\* Solana: lamports = parseFloat(amount) * LAMPORTS_PER_SOL, a float
\* `balance < lamports` (false when lamports is NaN)
balanceBelowLamports(balance, amount) ==
  ~parseFloatIsNaN(amount) /\ balance * 10 < amount.tenths
\* Math.floor(lamports)
floorLamports(amount) == amount.tenths \div 10

\* ------------------------------------------------------------------ errors
Err(msg) == [wrapped |-> FALSE, msg |-> msg]
NoError == Err("")
\* new Error(`Failed to create Solana keypair: ${error.message}`)
Wrap(error) == [wrapped |-> TRUE, msg |-> error.msg]

ErrDuplicateIndex == Err("Account with blockchain and index already exists")
\* slip: the message of the index case used for the name case
ErrDuplicateNameSameMessage == Err("Account with blockchain and index already exists")
ErrDuplicateName == Err("Account with name for blockchain already exists")
ErrDerivation == Err("Expected BIP32Path")
ErrInvalidParams == Err("Invalid transaction parameters")
ErrInvalidEthereumAddress == Err("Invalid Ethereum address format")
ErrInvalidSolanaAddress == Err("Invalid Solana address format")
ErrInsufficient == Err("Insufficient balance")
ErrKeyMismatch == Err("Derived keypair doesn't match account address")
ErrNetwork == Err("network error")
ErrAirdropNotSolana == Err("Airdrop can only be requested for Solana accounts")
ErrInvalidPublicKey == Err("Invalid public key input")
ErrNumeric == Err("invalid numeric value")

\* ------------------------------------------------------------------- state
VARIABLES
  accounts,      \* WalletManager.accounts: the account objects, in push order
  transactions,  \* WalletManager.transactions: references to Transaction objects
  txHeap,        \* the Transaction objects created so far, by reference
  pc,            \* per call slot: the await it is suspended at, or "idle"
  frame,         \* per call slot: arguments and locals of its current/last call
  result,        \* per call slot: how its last call ended
  netlog,        \* per call slot: network requests its current/last call issued
  chainBal,      \* the networks' balances (smallest unit) of the funded addresses
  clock,         \* Date.now()
  isProcessingRef,  \* App: isProcessingRef.current
  resetTimers,   \* App: pending setTimeout callbacks that clear isProcessingRef
  handed         \* per call slot: the array getAccounts/getTransactions returned

\* the state of the App component (src/App.tsx)
uiVars == <<isProcessingRef, resetTimers>>

vars == <<accounts, transactions, txHeap, pc, frame, result, netlog, chainBal, clock,
          isProcessingRef, resetTimers, handed>>

NoAddress == [fmt |-> "none", len |-> 0, key |-> NoKey]
NoAmount == [kind |-> "empty", tenths |-> 0]
\* the accountId argument of getTransactions: left out, "", or an id string
NoArgument == [arg |-> "undefined", id |-> AccountId("", 0)]
EmptyId == [arg |-> "empty", id |-> AccountId("", 0)]
IdArgument(blockchain, accountIndex) ==
  [arg |-> "id", id |-> AccountId(blockchain, accountIndex)]

NoFrame ==
  [op |-> "none", name |-> "", blockchain |-> "", mnemonic |-> "",
   accountIndex |-> 0, from |-> 0, to |-> EmptyString, amount |-> NoAmount,
   tx |-> 0, signer |-> NoAddress, handler |-> "none", queried |-> NoAddress,
   accountId |-> NoArgument]

\* the addresses the networks hold funds for: index 0 of each chain
AddressOf(blockchain, mnemonic, accountIndex) ==
  LET keyBytes == derivePath(mnemonicToSeed(mnemonic),
                             DerivationPath(blockchain, accountIndex))
  IN IF blockchain = "ethereum" THEN EthAddressOf(keyBytes) ELSE SolAddressOf(keyBytes)
FundedAddresses ==
  { AddressOf(c, m, 0) : c \in Chains, m \in Mnemonics }
BalanceOnChain(address) ==
  IF address \in DOMAIN chainBal THEN chainBal[address] ELSE 0

\* balance strings: the amount they denote and whether the text has a
\* decimal point ("0" against "0.0")
BalanceZero == [units |-> 0, point |-> FALSE]
\* ethers.formatEther(wei): always prints a fraction part
formatEther(wei) == [units |-> wei, point |-> TRUE]
\* (lamports / LAMPORTS_PER_SOL).toString()
formatSol(lamports) == [units |-> lamports, point |-> lamports # 0]

\* how a call ended: the account, Transaction or signature it returned
\* (`value`), the balance string it returned (`balance`), or the error it raised
\* the array a caller holds: `array` names the object ("accounts" and
\* "transactions" are the manager's own arrays, "new" a new one) and
\* `entries` the Transaction references of a new array
NoArray == [array |-> "none", entries |-> <<>>]

NoResult == [kind |-> "none", error |-> NoError, value |-> 0, balance |-> BalanceZero]
Returned(value) ==
  [kind |-> "returned", error |-> NoError, value |-> value, balance |-> BalanceZero]
ReturnedBalance(balance) ==
  [kind |-> "returned", error |-> NoError, value |-> 0, balance |-> balance]
Threw(error) == [kind |-> "threw", error |-> error, value |-> 0, balance |-> BalanceZero]

Init ==
  /\ accounts = <<>>
  /\ transactions = <<>>
  /\ txHeap = <<>>
  /\ pc = [p \in Procs |-> "idle"]
  /\ frame = [p \in Procs |-> NoFrame]
  /\ result = [p \in Procs |-> NoResult]
  /\ netlog = [p \in Procs |-> <<>>]
  /\ chainBal \in [FundedAddresses -> {0, MaxBal}]
  /\ clock = 0
  /\ isProcessingRef = FALSE
  /\ resetTimers = 0
  /\ handed = [p \in Procs |-> NoArray]

\* the same, with no funds on the networks
InitRegistry == Init /\ chainBal = [a \in FundedAddresses |-> 0]

\* ----------------------------------------------------------- createAccount
InFlight(op) ==
  Cardinality({p \in Procs : pc[p] \notin {"idle", "done"} /\ frame[p].op = op})

\* slip: the id compared without its chain prefix
existingAccountByIndexNoPrefix(blockchain, accountIndex) ==
  \E i \in DOMAIN accounts :
    /\ accounts[i].blockchain = blockchain
    /\ accounts[i].id = AccountId("", accountIndex)

\* slip: the chain comparison left out
existingAccountByIndexAnyChain(blockchain, accountIndex) ==
  \E i \in DOMAIN accounts :
    accounts[i].id[2] = AccountId(blockchain, accountIndex)[2]

existingAccountByIndex(blockchain, accountIndex) ==
  \E i \in DOMAIN accounts :
    /\ accounts[i].blockchain = blockchain
    /\ accounts[i].id = AccountId(blockchain, accountIndex)

\* slip: the chain comparison negated
existingAccountByNameOtherChain(blockchain, name) ==
  \E i \in DOMAIN accounts :
    accounts[i].blockchain # blockchain /\ accounts[i].name = name

existingAccountByName(blockchain, name) ==
  \E i \in DOMAIN accounts :
    accounts[i].blockchain = blockchain /\ accounts[i].name = name

\* slip: the key derived at the number of registered accounts, not at the index
NewAccountAtRegistrySize(name, blockchain, mnemonic, accountIndex) ==
  LET derivationPath == DerivationPath(blockchain, accountIndex)
      keyBytes == derivePath(mnemonicToSeed(mnemonic),
                             DerivationPath(blockchain, Len(accounts)))
      address == IF blockchain = "ethereum" THEN EthAddressOf(keyBytes)
                 ELSE SolAddressOf(keyBytes)
  IN [id |-> AccountId(blockchain, accountIndex),
      name |-> name,
      blockchain |-> blockchain,
      address |-> address,
      privateKey |-> toHex(keyBytes),
      publicKey |-> address,
      balance |-> BalanceZero,
      mnemonic |-> mnemonic,
      derivationPath |-> derivationPath]

\* the account object built at lines 128-167
NewAccount(name, blockchain, mnemonic, accountIndex) ==
  LET derivationPath == DerivationPath(blockchain, accountIndex)
      keyBytes == derivePath(mnemonicToSeed(mnemonic), derivationPath)
      address == IF blockchain = "ethereum" THEN EthAddressOf(keyBytes)
                 ELSE SolAddressOf(keyBytes)
  IN [id |-> AccountId(blockchain, accountIndex),
      name |-> name,
      blockchain |-> blockchain,
      address |-> address,
      privateKey |-> toHex(keyBytes),
      publicKey |-> address,
      balance |-> BalanceZero,
      mnemonic |-> mnemonic,
      derivationPath |-> derivationPath]

\* slip: a duplicate name takes the place of the account that has it
CreateAccountChecksReplacing(p, name, blockchain, mnemonic, accountIndex, handler) ==
  /\ frame' = [frame EXCEPT ![p] =
       [NoFrame EXCEPT !.op = "createAccount", !.name = name,
          !.blockchain = blockchain, !.mnemonic = mnemonic,
          !.accountIndex = accountIndex, !.handler = handler]]
  /\ netlog' = [netlog EXCEPT ![p] = <<>>]
  /\ IF existingAccountByIndex(blockchain, accountIndex)
       THEN /\ result' = [result EXCEPT ![p] = Threw(ErrDuplicateIndex)]
            /\ pc' = [pc EXCEPT ![p] = "done"]
            /\ accounts' = accounts
     ELSE IF existingAccountByName(blockchain, name)
       THEN /\ result' = [result EXCEPT ![p] = Threw(ErrDuplicateName)]
            /\ pc' = [pc EXCEPT ![p] = "done"]
            /\ accounts' = SelectSeq(accounts,
                 LAMBDA acc : ~(acc.blockchain = blockchain /\ acc.name = name))
     ELSE /\ Len(accounts) + InFlight("createAccount") < MaxAccounts
          /\ result' = [result EXCEPT ![p] = NoResult]
          /\ pc' = [pc EXCEPT ![p] = "create_seed"]
          /\ accounts' = accounts

\* createAccount(name, blockchain, mnemonic, accountIndex) from its call to
\* `await bip39.mnemonicToSeed(mnemonic)` (lines 82-119); `handler` is the
\* App handler that called it, if any
CreateAccountChecks(p, name, blockchain, mnemonic, accountIndex, handler) ==
  /\ frame' = [frame EXCEPT ![p] =
       [NoFrame EXCEPT !.op = "createAccount", !.name = name,
          !.blockchain = blockchain, !.mnemonic = mnemonic,
          !.accountIndex = accountIndex, !.handler = handler]]
  /\ netlog' = [netlog EXCEPT ![p] = <<>>]
  /\ IF existingAccountByIndex(blockchain, accountIndex)
       THEN /\ result' = [result EXCEPT ![p] = Threw(ErrDuplicateIndex)]
            /\ pc' = [pc EXCEPT ![p] = "done"]
     ELSE IF existingAccountByName(blockchain, name)
       THEN /\ result' = [result EXCEPT ![p] = Threw(ErrDuplicateName)]
            /\ pc' = [pc EXCEPT ![p] = "done"]
     ELSE /\ Len(accounts) + InFlight("createAccount") < MaxAccounts
          /\ result' = [result EXCEPT ![p] = NoResult]
          /\ pc' = [pc EXCEPT ![p] = "create_seed"]
  /\ accounts' = accounts

\* a call of createAccount by any caller
CreateAccountCallWith(p, names, indices, mnemonics) ==
  /\ pc[p] = "idle"
  /\ \E name \in names, blockchain \in Chains, mnemonic \in mnemonics,
        accountIndex \in indices :
       CreateAccountChecks(p, name, blockchain, mnemonic, accountIndex, "none")
  /\ UNCHANGED <<transactions, txHeap, chainBal, clock, uiVars, handed>>

\* the same, with the phrase whose index-0 addresses the networks hold funds for
CreateAccountCall(p, names, indices) ==
  CreateAccountCallWith(p, names, indices, Mnemonics)

\* variant: the uniqueness checks repeated after the suspension
CreateAccountResumeRechecked(p) ==
  /\ pc[p] = "create_seed"
  /\ LET f == frame[p]
     IN IF existingAccountByIndex(f.blockchain, f.accountIndex)
          THEN /\ result' = [result EXCEPT ![p] = Threw(ErrDuplicateIndex)]
               /\ accounts' = accounts
        ELSE IF existingAccountByName(f.blockchain, f.name)
          THEN /\ result' = [result EXCEPT ![p] = Threw(ErrDuplicateName)]
               /\ accounts' = accounts
        ELSE IF derivePathFails(DerivationPath(f.blockchain, f.accountIndex))
          THEN /\ result' = [result EXCEPT ![p] = Threw(ErrDerivation)]
               /\ accounts' = accounts
        ELSE /\ accounts' = Append(accounts,
                   NewAccount(f.name, f.blockchain, f.mnemonic, f.accountIndex))
             /\ result' = [result EXCEPT ![p] = Returned(Len(accounts) + 1)]
  /\ pc' = [pc EXCEPT ![p] = "done"]
  /\ UNCHANGED <<transactions, txHeap, frame, netlog, chainBal, clock, uiVars, handed>>

\* slip: the new account put at the head of the list
CreateAccountResumeUnshift(p) ==
  /\ pc[p] = "create_seed"
  /\ LET f == frame[p]
     IN IF derivePathFails(DerivationPath(f.blockchain, f.accountIndex))
          THEN /\ result' = [result EXCEPT ![p] = Threw(ErrDerivation)]
               /\ accounts' = accounts
          ELSE /\ accounts' = <<NewAccount(f.name, f.blockchain, f.mnemonic,
                                        f.accountIndex)>> \o accounts
               /\ result' = [result EXCEPT ![p] = Returned(Len(accounts) + 1)]
  /\ pc' = [pc EXCEPT ![p] = "done"]
  /\ UNCHANGED <<transactions, txHeap, frame, netlog, chainBal, clock, uiVars, handed>>

\* createAccount from the resumption after mnemonicToSeed to its end
CreateAccountResume(p) ==
  /\ pc[p] = "create_seed"
  /\ LET f == frame[p]
     IN IF derivePathFails(DerivationPath(f.blockchain, f.accountIndex))
          THEN /\ result' = [result EXCEPT ![p] = Threw(ErrDerivation)]
               /\ accounts' = accounts
          ELSE /\ accounts' = Append(accounts,
                     NewAccount(f.name, f.blockchain, f.mnemonic, f.accountIndex))
               /\ result' = [result EXCEPT ![p] = Returned(Len(accounts) + 1)]
  /\ pc' = [pc EXCEPT ![p] = "done"]
  /\ UNCHANGED <<transactions, txHeap, frame, netlog, chainBal, clock, uiVars, handed>>

\* ---------------------------------------------------------- sendTransaction
\* a request to a network service and, once the call resumed, its reply
NoReply == [ok |-> FALSE, value |-> -1]
Failure == [ok |-> FALSE, value |-> 0]
Success(value) == [ok |-> TRUE, value |-> value]
NetCall(call, via, address, signer, units) ==
  [call |-> call, via |-> via, address |-> address, signer |-> signer,
   units |-> units, reply |-> NoReply]

\* the log of slot p with the reply to its outstanding request filled in
Answered(p, reply) == [netlog[p] EXCEPT ![Len(netlog[p])].reply = reply]

\* lines 225-228: !toAddress || !amount || parseFloat(amount) <= 0
invalidParameters(toAddress, amount) ==
  \/ toAddress.fmt = "empty"
  \/ amount.kind = "empty"
  \/ parseFloatLeqZero(amount)

\* lines 230-243: the chain's address-format check
invalidAddressFormat(blockchain, toAddress) ==
  IF blockchain = "ethereum" THEN ~isValidEthereumAddress(toAddress)
  ELSE ~isValidSolanaAddress(toAddress)

\* lines 246-254: the Transaction object, status "pending", no hash
NewTransaction(id, from, to, amount, blockchain, timestamp) ==
  [id |-> id, from |-> from, to |-> to, amount |-> amount,
   blockchain |-> blockchain, status |-> "pending", timestamp |-> timestamp,
   hash |-> ""]

\* slip: only the size of the key material checked
keypairMatchesBySize(keyBytes, address) == keyBytes.bytes = 32

\* line 312: keypair.publicKey.toString() !== fromAccount.address
keypairMatches(keyBytes, address) == SolAddressOf(keyBytes) = address

\* slip: the failed Transaction not stored
CatchWithoutPush(p, heap, ref, error) ==
  /\ txHeap' = [heap EXCEPT ![ref].status = "failed"]
  /\ transactions' = transactions
  /\ result' = [result EXCEPT ![p] = Threw(error)]
  /\ pc' = [pc EXCEPT ![p] = "done"]

\* slip: the failed Transaction put at the head of the Ledger
CatchPrepending(p, heap, ref, error) ==
  /\ txHeap' = [heap EXCEPT ![ref].status = "failed"]
  /\ transactions' = <<ref>> \o transactions
  /\ result' = [result EXCEPT ![p] = Threw(error)]
  /\ pc' = [pc EXCEPT ![p] = "done"]

\* lines 365-370: the outer catch, on the Transaction objects `heap`
Catch(p, heap, ref, error) ==
  /\ txHeap' = [heap EXCEPT ![ref].status = "failed"]
  /\ transactions' = Append(transactions, ref)
  /\ result' = [result EXCEPT ![p] = Threw(error)]
  /\ pc' = [pc EXCEPT ![p] = "done"]

\* a network request that failed: the error reaches the outer catch, on the
\* Solana path through the inner catch (lines 349-356)
NetworkFailure(p) ==
  /\ netlog' = [netlog EXCEPT ![p] = Answered(p, Failure)]
  /\ Catch(p, txHeap, frame[p].tx,
           IF frame[p].blockchain = "solana" THEN Wrap(ErrNetwork) ELSE ErrNetwork)

\* lines 288/348 then 359-362: status set, push, and the call of this.getBalance
\* up to its await (lines 186-205)
SetStatusAndPush(p, status, reply) ==
  LET f == frame[p]
      account == accounts[f.from]
  IN /\ txHeap' = [txHeap EXCEPT ![f.tx].status = status]
     /\ transactions' = Append(transactions, f.tx)
     /\ IF account.blockchain = "solana" /\ ~isValidSolanaAddress(account.address)
          THEN netlog' = [netlog EXCEPT ![p] = Answered(p, reply)]
          ELSE netlog' = [netlog EXCEPT ![p] = Append(Answered(p, reply),
                 NetCall("getBalance", "oracle", account.address, NoAddress, 0))]
     /\ pc' = [pc EXCEPT ![p] = "refresh"]
     /\ UNCHANGED result

\* sendTransaction from its call to its first await (or its synchronous end)
SendTransactionCall(p, toAddresses, amounts, maxTx, ticks) ==
  /\ pc[p] = "idle"
  /\ \E from \in DOMAIN accounts, toAddress \in toAddresses, amount \in amounts,
        tick \in ticks :
       LET fromAccount == accounts[from]
           call == [NoFrame EXCEPT !.op = "sendTransaction", !.from = from,
                      !.blockchain = fromAccount.blockchain,
                      !.to = toAddress, !.amount = amount]
           timestamp == IF clock + tick <= MaxClock THEN clock + tick ELSE clock
           ref == Len(txHeap) + 1
           heap == Append(txHeap,
                     NewTransaction(clock, fromAccount.address, toAddress, amount,
                                    fromAccount.blockchain, timestamp))
           keyBytes == fromHex(fromAccount.privateKey)
           balanceQuery == NetCall("getBalance", "send", fromAccount.address,
                                   NoAddress, 0)
       IN IF invalidParameters(toAddress, amount)
            THEN /\ result' = [result EXCEPT ![p] = Threw(ErrInvalidParams)]
                 /\ frame' = [frame EXCEPT ![p] = call]
                 /\ pc' = [pc EXCEPT ![p] = "done"]
                 /\ UNCHANGED <<txHeap, transactions, clock, netlog>>
          ELSE IF invalidAddressFormat(fromAccount.blockchain, toAddress)
            THEN /\ result' = [result EXCEPT ![p] =
                      Threw(IF fromAccount.blockchain = "ethereum"
                              THEN ErrInvalidEthereumAddress
                              ELSE ErrInvalidSolanaAddress)]
                 /\ frame' = [frame EXCEPT ![p] = call]
                 /\ pc' = [pc EXCEPT ![p] = "done"]
                 /\ UNCHANGED <<txHeap, transactions, clock, netlog>>
          ELSE /\ Len(txHeap) < maxTx
               /\ clock' = timestamp
               /\ IF fromAccount.blockchain = "ethereum"
                    THEN \* new ethers.Wallet(`0x${privateKey}`, provider); getBalance
                         /\ frame' = [frame EXCEPT ![p] =
                              [call EXCEPT !.tx = ref, !.signer = EthAddressOf(keyBytes)]]
                         /\ txHeap' = heap
                         /\ netlog' = [netlog EXCEPT ![p] = <<balanceQuery>>]
                         /\ pc' = [pc EXCEPT ![p] = "evm_balance"]
                         /\ UNCHANGED <<transactions, result>>
                  ELSE IF ~keypairMatches(keyBytes, fromAccount.address)
                    THEN \* lines 312-314, wrapped by the inner catch
                         /\ frame' = [frame EXCEPT ![p] =
                              [call EXCEPT !.tx = ref, !.signer = SolAddressOf(keyBytes)]]
                         /\ Catch(p, heap, ref, Wrap(ErrKeyMismatch))
                         /\ UNCHANGED netlog
                  ELSE /\ frame' = [frame EXCEPT ![p] =
                              [call EXCEPT !.tx = ref, !.signer = SolAddressOf(keyBytes)]]
                       /\ txHeap' = heap
                       /\ netlog' = [netlog EXCEPT ![p] = <<balanceQuery>>]
                       /\ pc' = [pc EXCEPT ![p] = "sol_balance"]
                       /\ UNCHANGED <<transactions, result>>
  /\ UNCHANGED <<accounts, chainBal, uiVars, handed>>

\* slip: the comparison of balance and amount left out
EvmBalanceResumeUnchecked(p) ==
  /\ pc[p] = "evm_balance"
  /\ LET f == frame[p]
         balance == BalanceOnChain(txHeap[f.tx].from)
         replied == Answered(p, Success(balance))
     IN \/ NetworkFailure(p)
        \/ IF parseEtherFails(f.amount)
             THEN /\ Catch(p, txHeap, f.tx, ErrNumeric)
                  /\ netlog' = [netlog EXCEPT ![p] = replied]
           ELSE /\ netlog' = [netlog EXCEPT ![p] = Append(replied,
                      NetCall("sendTransaction", "send", f.to, f.signer,
                              parseEther(f.amount)))]
                /\ pc' = [pc EXCEPT ![p] = "evm_submit"]
                /\ UNCHANGED <<txHeap, transactions, result>>
  /\ UNCHANGED <<accounts, frame, chainBal, clock, uiVars, handed>>

\* EVM: resumption after provider.getBalance, lines 270-281
EvmBalanceResume(p) ==
  /\ pc[p] = "evm_balance"
  /\ LET f == frame[p]
         balance == BalanceOnChain(txHeap[f.tx].from)
         replied == Answered(p, Success(balance))
     IN \/ NetworkFailure(p)
        \/ IF parseEtherFails(f.amount)
             THEN /\ Catch(p, txHeap, f.tx, ErrNumeric)
                  /\ netlog' = [netlog EXCEPT ![p] = replied]
           ELSE IF balance < parseEther(f.amount)
             THEN /\ Catch(p, txHeap, f.tx, ErrInsufficient)
                  /\ netlog' = [netlog EXCEPT ![p] = replied]
           ELSE /\ netlog' = [netlog EXCEPT ![p] = Append(replied,
                      NetCall("sendTransaction", "send", f.to, f.signer,
                              parseEther(f.amount)))]
                /\ pc' = [pc EXCEPT ![p] = "evm_submit"]
                /\ UNCHANGED <<txHeap, transactions, result>>
  /\ UNCHANGED <<accounts, frame, chainBal, clock, uiVars, handed>>

\* the network accepts a transfer only from an address holding the funds
Accepts(signer, units) == BalanceOnChain(signer) >= units
Debit(signer, units) ==
  IF signer \in DOMAIN chainBal
    THEN chainBal' = [chainBal EXCEPT ![signer] = @ - units]
    ELSE chainBal' = chainBal

\* slip: the hash recorded only once the receipt is in
EvmSubmitResumeNoHash(p) ==
  /\ pc[p] = "evm_submit"
  /\ LET f == frame[p]
         units == parseEther(f.amount)
     IN \/ NetworkFailure(p) /\ UNCHANGED chainBal
        \/ /\ Accepts(f.signer, units)
           /\ Debit(f.signer, units)
           /\ netlog' = [netlog EXCEPT ![p] = Append(Answered(p, Success(0)),
                 NetCall("wait", "send", f.to, f.signer, 0))]
           /\ pc' = [pc EXCEPT ![p] = "evm_wait"]
           /\ UNCHANGED <<txHeap, transactions, result>>
  /\ UNCHANGED <<accounts, frame, clock, uiVars, handed>>

\* EVM: resumption after wallet.sendTransaction, lines 283-287
EvmSubmitResume(p) ==
  /\ pc[p] = "evm_submit"
  /\ LET f == frame[p]
         units == parseEther(f.amount)
     IN \/ NetworkFailure(p) /\ UNCHANGED chainBal
        \/ /\ Accepts(f.signer, units)
           /\ Debit(f.signer, units)
           /\ txHeap' = [txHeap EXCEPT ![f.tx].hash = "hash"]
           /\ netlog' = [netlog EXCEPT ![p] = Append(Answered(p, Success(0)),
                 NetCall("wait", "send", f.to, f.signer, 0))]
           /\ pc' = [pc EXCEPT ![p] = "evm_wait"]
           /\ UNCHANGED <<transactions, result>>
  /\ UNCHANGED <<accounts, frame, clock, uiVars, handed>>

\* EVM: resumption after tx.wait(), lines 288 and 359-362; the reply's
\* value is 1 for a receipt and 0 for null
EvmWaitResume(p) ==
  /\ pc[p] = "evm_wait"
  /\ \/ NetworkFailure(p)
     \/ SetStatusAndPush(p, "confirmed", Success(1))
     \/ SetStatusAndPush(p, "failed", Success(0))
  /\ UNCHANGED <<accounts, frame, chainBal, clock, uiVars, handed>>

\* slip: the comparison of balance and lamports left out
SolBalanceResumeUnchecked(p) ==
  /\ pc[p] = "sol_balance"
  /\ LET f == frame[p]
         balance == BalanceOnChain(txHeap[f.tx].from)
         replied == Answered(p, Success(balance))
     IN \/ NetworkFailure(p)
        \/ IF parseFloatIsNaN(f.amount)
             THEN /\ Catch(p, txHeap, f.tx, Wrap(ErrNumeric))
                  /\ netlog' = [netlog EXCEPT ![p] = replied]
           ELSE /\ netlog' = [netlog EXCEPT ![p] = Append(replied,
                      NetCall("getLatestBlockhash", "send", NoAddress, NoAddress, 0))]
                /\ pc' = [pc EXCEPT ![p] = "sol_blockhash"]
                /\ UNCHANGED <<txHeap, transactions, result>>
  /\ UNCHANGED <<accounts, frame, chainBal, clock, uiVars, handed>>

\* Solana: resumption after connection.getBalance, lines 317-334
SolBalanceResume(p) ==
  /\ pc[p] = "sol_balance"
  /\ LET f == frame[p]
         balance == BalanceOnChain(txHeap[f.tx].from)
         replied == Answered(p, Success(balance))
     IN \/ NetworkFailure(p)
        \/ IF balanceBelowLamports(balance, f.amount)
             THEN /\ Catch(p, txHeap, f.tx, Wrap(ErrInsufficient))
                  /\ netlog' = [netlog EXCEPT ![p] = replied]
           ELSE IF parseFloatIsNaN(f.amount)
             THEN \* SystemProgram.transfer rejects lamports: NaN
                  /\ Catch(p, txHeap, f.tx, Wrap(ErrNumeric))
                  /\ netlog' = [netlog EXCEPT ![p] = replied]
           ELSE /\ netlog' = [netlog EXCEPT ![p] = Append(replied,
                      NetCall("getLatestBlockhash", "send", NoAddress, NoAddress, 0))]
                /\ pc' = [pc EXCEPT ![p] = "sol_blockhash"]
                /\ UNCHANGED <<txHeap, transactions, result>>
  /\ UNCHANGED <<accounts, frame, chainBal, clock, uiVars, handed>>

\* variant: a failed blockhash fetch starts the send over at its balance query
SolBlockhashResumeRestarting(p) ==
  /\ pc[p] = "sol_blockhash"
  /\ LET f == frame[p]
     IN \/ /\ netlog' = [netlog EXCEPT ![p] =
                 <<NetCall("getBalance", "send", txHeap[f.tx].from, NoAddress, 0)>>]
           /\ pc' = [pc EXCEPT ![p] = "sol_balance"]
           /\ UNCHANGED <<txHeap, transactions, result>>
        \/ /\ netlog' = [netlog EXCEPT ![p] = Append(Answered(p, Success(0)),
                 NetCall("sendTransaction", "send", f.to, f.signer,
                         floorLamports(f.amount)))]
           /\ pc' = [pc EXCEPT ![p] = "sol_submit"]
           /\ UNCHANGED <<txHeap, transactions, result>>
  /\ UNCHANGED <<accounts, frame, chainBal, clock, uiVars, handed>>

\* slip: the Transaction stored before its outcome is known
SolBlockhashResumePushing(p) ==
  /\ pc[p] = "sol_blockhash"
  /\ LET f == frame[p]
     IN \/ NetworkFailure(p)
        \/ /\ netlog' = [netlog EXCEPT ![p] = Append(Answered(p, Success(0)),
                 NetCall("sendTransaction", "send", f.to, f.signer,
                         floorLamports(f.amount)))]
           /\ pc' = [pc EXCEPT ![p] = "sol_submit"]
           /\ transactions' = Append(transactions, f.tx)
           /\ UNCHANGED <<txHeap, result>>
  /\ UNCHANGED <<accounts, frame, chainBal, clock, uiVars, handed>>

\* Solana: resumption after connection.getLatestBlockhash, lines 335-341
SolBlockhashResume(p) ==
  /\ pc[p] = "sol_blockhash"
  /\ LET f == frame[p]
     IN \/ NetworkFailure(p)
        \/ /\ netlog' = [netlog EXCEPT ![p] = Append(Answered(p, Success(0)),
                 NetCall("sendTransaction", "send", f.to, f.signer,
                         floorLamports(f.amount)))]
           /\ pc' = [pc EXCEPT ![p] = "sol_submit"]
           /\ UNCHANGED <<txHeap, transactions, result>>
  /\ UNCHANGED <<accounts, frame, chainBal, clock, uiVars, handed>>

\* Solana: resumption after connection.sendTransaction, lines 343-347
SolSubmitResume(p) ==
  /\ pc[p] = "sol_submit"
  /\ LET f == frame[p]
         units == floorLamports(f.amount)
     IN \/ NetworkFailure(p) /\ UNCHANGED chainBal
        \/ /\ Accepts(f.signer, units)
           /\ Debit(f.signer, units)
           /\ txHeap' = [txHeap EXCEPT ![f.tx].hash = "hash"]
           /\ netlog' = [netlog EXCEPT ![p] = Append(Answered(p, Success(0)),
                 NetCall("confirmTransaction", "send", f.to, f.signer, 0))]
           /\ pc' = [pc EXCEPT ![p] = "sol_confirm"]
           /\ UNCHANGED <<transactions, result>>
  /\ UNCHANGED <<accounts, frame, clock, uiVars, handed>>

\* slip: confirmation.value.err not looked at
SolConfirmResumeIgnoringErr(p) ==
  /\ pc[p] = "sol_confirm"
  /\ \/ NetworkFailure(p)
     \/ SetStatusAndPush(p, "confirmed", Success(0))
     \/ SetStatusAndPush(p, "confirmed", Success(1))
  /\ UNCHANGED <<accounts, frame, chainBal, clock, uiVars, handed>>

\* Solana: resumption after connection.confirmTransaction, lines 348 and
\* 359-362; the reply's value is 0 for err: null and 1 for an execution error
SolConfirmResume(p) ==
  /\ pc[p] = "sol_confirm"
  /\ \/ NetworkFailure(p)
     \/ SetStatusAndPush(p, "confirmed", Success(0))
     \/ SetStatusAndPush(p, "failed", Success(1))
  /\ UNCHANGED <<accounts, frame, chainBal, clock, uiVars, handed>>

\* getBalance (lines 186-213): the string it resolves to; `answered` is
\* whether the network query succeeded
getBalance(account, answered) ==
  IF account.blockchain = "ethereum"
    THEN IF answered THEN formatEther(BalanceOnChain(account.address))
         ELSE BalanceZero
  ELSE IF answered /\ isValidSolanaAddress(account.address)
    THEN formatSol(BalanceOnChain(account.address))
  ELSE BalanceZero

\* variant: a failed balance query propagates out of getBalance
SendRefreshResumeRethrow(p) ==
  /\ pc[p] = "refresh"
  /\ LET account == accounts[frame[p].from]
     IN \/ /\ accounts' = [accounts EXCEPT ![frame[p].from].balance =
                             getBalance(account, TRUE)]
           /\ netlog' = [netlog EXCEPT ![p] =
                 Answered(p, Success(BalanceOnChain(account.address)))]
           /\ result' = [result EXCEPT ![p] = Returned(frame[p].tx)]
           /\ pc' = [pc EXCEPT ![p] = "done"]
           /\ UNCHANGED <<transactions, txHeap>>
        \/ /\ NetworkFailure(p)
           /\ UNCHANGED accounts
  /\ UNCHANGED <<frame, chainBal, clock, uiVars, handed>>

\* lines 362-364: resumption after this.getBalance, balance stored, return
SendRefreshResume(p) ==
  /\ pc[p] = "refresh"
  /\ \E answered \in BOOLEAN :
       LET account == accounts[frame[p].from]
       IN /\ accounts' = [accounts EXCEPT ![frame[p].from].balance =
                            getBalance(account, answered)]
          /\ netlog' = [netlog EXCEPT ![p] =
               IF netlog[p][Len(netlog[p])].via = "oracle"
                 THEN Answered(p, IF answered
                                    THEN Success(BalanceOnChain(account.address))
                                    ELSE Failure)
                 ELSE netlog[p]]
  /\ result' = [result EXCEPT ![p] = Returned(frame[p].tx)]
  /\ pc' = [pc EXCEPT ![p] = "done"]
  /\ UNCHANGED <<transactions, txHeap, frame, chainBal, clock, uiVars, handed>>

\* the caller's continuation after `await walletManager.<call>(...)`: the
\* outcome is consumed and the slot is free for the next call
Settled(p) ==
  /\ pc[p] = "done"
  /\ frame[p].handler = "none"
  /\ pc' = [pc EXCEPT ![p] = "idle"]
  /\ frame' = [frame EXCEPT ![p] = NoFrame]
  /\ result' = [result EXCEPT ![p] = NoResult]
  /\ netlog' = [netlog EXCEPT ![p] = <<>>]
  /\ handed' = [handed EXCEPT ![p] = NoArray]
  /\ UNCHANGED <<accounts, transactions, txHeap, chainBal, clock, uiVars>>

\* a holder of the array returned by getAccounts (lines 176-178) overwrites
\* the privateKey field of one of its account objects
AlterPrivateKey(i) ==
  /\ i \in DOMAIN accounts
  /\ accounts[i].privateKey # toHex(AlteredKeyBytes)
  /\ accounts' = [accounts EXCEPT ![i].privateKey = toHex(AlteredKeyBytes)]
  /\ UNCHANGED <<transactions, txHeap, pc, frame, result, netlog, chainBal, clock, uiVars, handed>>

\* ------------------------------------------------- getBalance, called alone
\* the account objects a caller passes: those of the registry, and a Solana
\* account object whose address is not a public key
MalformedSolanaAddress == [fmt |-> "b58", len |-> 31, key |-> NoKey]

\* getBalance from its call to its await (lines 186-205), or to the return of
\* "0" from the catch when new PublicKey(account.address) throws (line 203)
GetBalanceCall(p) ==
  /\ pc[p] = "idle"
  /\ \E blockchain \in Chains :
     \E address \in {accounts[i].address :
                       i \in {j \in DOMAIN accounts : accounts[j].blockchain = blockchain}}
                    \cup (IF blockchain = "solana" THEN {MalformedSolanaAddress} ELSE {}) :
       /\ frame' = [frame EXCEPT ![p] =
            [NoFrame EXCEPT !.op = "getBalance", !.blockchain = blockchain,
               !.queried = address]]
       /\ IF blockchain = "solana" /\ ~isValidSolanaAddress(address)
            THEN /\ result' = [result EXCEPT ![p] = ReturnedBalance(BalanceZero)]
                 /\ netlog' = [netlog EXCEPT ![p] = <<>>]
                 /\ pc' = [pc EXCEPT ![p] = "done"]
            ELSE /\ result' = [result EXCEPT ![p] = NoResult]
                 /\ netlog' = [netlog EXCEPT ![p] =
                      <<NetCall("getBalance", "oracle", address, NoAddress, 0)>>]
                 /\ pc' = [pc EXCEPT ![p] = "balance"]
  /\ UNCHANGED <<accounts, transactions, txHeap, chainBal, clock, uiVars, handed>>

\* variant: the catch of lines 209-212 rethrows
GetBalanceResumeRethrow(p) ==
  /\ pc[p] = "balance"
  /\ \E answered \in BOOLEAN :
       LET f == frame[p]
           account == [blockchain |-> f.blockchain, address |-> f.queried]
       IN /\ result' = [result EXCEPT ![p] =
               IF answered THEN ReturnedBalance(getBalance(account, answered))
               ELSE Threw(ErrNetwork)]
          /\ netlog' = [netlog EXCEPT ![p] =
               Answered(p, IF answered THEN Success(BalanceOnChain(f.queried))
                           ELSE Failure)]
  /\ pc' = [pc EXCEPT ![p] = "done"]
  /\ UNCHANGED <<accounts, transactions, txHeap, frame, chainBal, clock, uiVars, handed>>

\* getBalance resumed after the network's balance query (lines 196-212)
GetBalanceResume(p) ==
  /\ pc[p] = "balance"
  /\ \E answered \in BOOLEAN :
       LET f == frame[p]
           account == [blockchain |-> f.blockchain, address |-> f.queried]
       IN /\ result' = [result EXCEPT ![p] =
               ReturnedBalance(getBalance(account, answered))]
          /\ netlog' = [netlog EXCEPT ![p] =
               Answered(p, IF answered THEN Success(BalanceOnChain(f.queried))
                           ELSE Failure)]
  /\ pc' = [pc EXCEPT ![p] = "done"]
  /\ UNCHANGED <<accounts, transactions, txHeap, frame, chainBal, clock, uiVars, handed>>

\* ------------------------------------------------------ requestSolanaAirdrop
\* the SOL amounts requested (the parameter's default is 1)
AirdropAmounts == {1}
\* amount * LAMPORTS_PER_SOL, counted in the unit of chainBal: here one unit
\* of chainBal stands for the lamports of one SOL
Grant(amount) == amount

\* requestSolanaAirdrop(account, amount) from its call to
\* `await connection.requestAirdrop` (lines 386-407)
RequestSolanaAirdropCall(p) ==
  /\ pc[p] = "idle"
  /\ \E from \in DOMAIN accounts, amount \in AirdropAmounts :
       LET account == accounts[from]
       IN /\ frame' = [frame EXCEPT ![p] =
               [NoFrame EXCEPT !.op = "requestSolanaAirdrop", !.from = from,
                  !.blockchain = account.blockchain, !.queried = account.address]]
          /\ IF account.blockchain # "solana"
               THEN /\ result' = [result EXCEPT ![p] = Threw(ErrAirdropNotSolana)]
                    /\ netlog' = [netlog EXCEPT ![p] = <<>>]
                    /\ pc' = [pc EXCEPT ![p] = "done"]
             ELSE IF ~isValidSolanaAddress(account.address)
               THEN \* new PublicKey throws; the catch rethrows (lines 417-420)
                    /\ result' = [result EXCEPT ![p] = Threw(ErrInvalidPublicKey)]
                    /\ netlog' = [netlog EXCEPT ![p] = <<>>]
                    /\ pc' = [pc EXCEPT ![p] = "done"]
             ELSE /\ result' = [result EXCEPT ![p] = NoResult]
                  /\ netlog' = [netlog EXCEPT ![p] =
                       <<NetCall("requestAirdrop", "airdrop", account.address,
                                 NoAddress, Grant(amount))>>]
                  /\ pc' = [pc EXCEPT ![p] = "airdrop_request"]
  /\ UNCHANGED <<accounts, transactions, txHeap, chainBal, clock, uiVars, handed>>

\* a network request of an airdrop failed: the catch of lines 417-420 rethrows
AirdropFailure(p) ==
  /\ netlog' = [netlog EXCEPT ![p] = Answered(p, Failure)]
  /\ result' = [result EXCEPT ![p] = Threw(ErrNetwork)]
  /\ pc' = [pc EXCEPT ![p] = "done"]
  /\ UNCHANGED <<accounts, chainBal>>

\* the faucet credits a funded address, up to the model's largest balance
Credit(address, units) ==
  /\ address \in DOMAIN chainBal
  /\ chainBal[address] + units <= MaxBal
  /\ chainBal' = [chainBal EXCEPT ![address] = @ + units]

\* slip: the confirmation is not awaited
AirdropRequestResumeUnconfirmed(p) ==
  /\ pc[p] = "airdrop_request"
  /\ \/ AirdropFailure(p)
     \/ /\ Credit(frame[p].queried, netlog[p][1].units)
        /\ netlog' = [netlog EXCEPT ![p] = Append(Answered(p, Success(1)),
              NetCall("getBalance", "oracle", frame[p].queried, NoAddress, 0))]
        /\ pc' = [pc EXCEPT ![p] = "airdrop_refresh"]
        /\ UNCHANGED <<accounts, result>>
  /\ UNCHANGED <<transactions, txHeap, frame, clock, uiVars, handed>>

\* resumption after connection.requestAirdrop (lines 404-410); the reply's
\* value is the signature
AirdropRequestResume(p) ==
  /\ pc[p] = "airdrop_request"
  /\ \/ AirdropFailure(p)
     \/ /\ Credit(frame[p].queried, netlog[p][1].units)
        /\ netlog' = [netlog EXCEPT ![p] = Append(Answered(p, Success(1)),
              NetCall("confirmTransaction", "airdrop", frame[p].queried, NoAddress, 0))]
        /\ pc' = [pc EXCEPT ![p] = "airdrop_confirm"]
        /\ UNCHANGED <<accounts, result>>
  /\ UNCHANGED <<transactions, txHeap, frame, clock, uiVars, handed>>

\* resumption after connection.confirmTransaction (line 410), whose result is
\* not looked at (value 0: err null, 1: an execution error), then the call of
\* this.getBalance(account) up to its await (line 413)
AirdropConfirmResume(p) ==
  /\ pc[p] = "airdrop_confirm"
  /\ \/ AirdropFailure(p)
     \/ \E err \in {0, 1} :
        /\ netlog' = [netlog EXCEPT ![p] = Append(Answered(p, Success(err)),
              NetCall("getBalance", "oracle", accounts[frame[p].from].address,
                      NoAddress, 0))]
        /\ pc' = [pc EXCEPT ![p] = "airdrop_refresh"]
        /\ UNCHANGED <<accounts, result, chainBal>>
  /\ UNCHANGED <<transactions, txHeap, frame, clock, uiVars, handed>>

\* resumption after this.getBalance: balance stored, signature returned
\* (lines 413-415)
AirdropRefreshResume(p) ==
  /\ pc[p] = "airdrop_refresh"
  /\ \E answered \in BOOLEAN :
       LET account == accounts[frame[p].from]
       IN /\ accounts' = [accounts EXCEPT ![frame[p].from].balance =
                            getBalance(account, answered)]
          /\ netlog' = [netlog EXCEPT ![p] =
               Answered(p, IF answered
                             THEN Success(BalanceOnChain(account.address))
                             ELSE Failure)]
  /\ result' = [result EXCEPT ![p] = Returned(netlog[p][1].reply.value)]
  /\ pc' = [pc EXCEPT ![p] = "done"]
  /\ UNCHANGED <<transactions, txHeap, frame, chainBal, clock, uiVars, handed>>

\* --------------------------------------------- App.createAccount (src/App.tsx)
\* slip: the count of all accounts, not of the chain's accounts
allAccountsLength(blockchain) == Len(accounts)

\* lines 46-47: accounts.filter(a => a.blockchain === newAccountBlockchain).length;
\* the component's `accounts` state is the array getAccounts returned (lines 34, 70)
blockchainAccountsLength(blockchain) ==
  Cardinality({i \in DOMAIN accounts : accounts[i].blockchain = blockchain})

\* slip: the handler without its guard on isProcessingRef
AppCreateAccountUnguarded(p, names) ==
  /\ pc[p] = "idle"
  /\ isProcessingRef' = TRUE
  /\ \E newAccountName \in names, newAccountBlockchain \in Chains :
       IF \E i \in DOMAIN accounts :
            /\ accounts[i].name = newAccountName
            /\ accounts[i].blockchain = newAccountBlockchain
         THEN \* alert and return; finally (lines 77-82) schedules the reset
              /\ resetTimers' = resetTimers + 1
              /\ UNCHANGED <<pc, frame>>
         ELSE /\ Len(accounts) < MaxAccounts
              /\ frame' = [frame EXCEPT ![p] =
                   [NoFrame EXCEPT !.op = "App.createAccount",
                      !.name = newAccountName,
                      !.blockchain = newAccountBlockchain,
                      !.accountIndex = blockchainAccountsLength(newAccountBlockchain),
                      !.handler = "App.createAccount"]]
              /\ pc' = [pc EXCEPT ![p] = "app_mnemonic"]
              /\ UNCHANGED resetTimers
  /\ UNCHANGED <<accounts, transactions, txHeap, result, netlog, chainBal, clock,
                 handed>>

\* the click handler from its guard (line 39) to
\* `await walletManager.generateMnemonic()` (line 61) or to its return at line
\* 56. isCreatingAccount is true only while isProcessingRef.current is, so the
\* ref decides the guard; the names offered are not blank.
AppCreateAccount(p, names) ==
  /\ pc[p] = "idle"
  /\ ~isProcessingRef
  /\ isProcessingRef' = TRUE
  /\ \E newAccountName \in names, newAccountBlockchain \in Chains :
       IF \E i \in DOMAIN accounts :
            /\ accounts[i].name = newAccountName
            /\ accounts[i].blockchain = newAccountBlockchain
         THEN \* alert and return; finally (lines 77-82) schedules the reset
              /\ resetTimers' = resetTimers + 1
              /\ UNCHANGED <<pc, frame>>
         ELSE /\ Len(accounts) < MaxAccounts
              /\ frame' = [frame EXCEPT ![p] =
                   [NoFrame EXCEPT !.op = "App.createAccount",
                      !.name = newAccountName,
                      !.blockchain = newAccountBlockchain,
                      !.accountIndex = blockchainAccountsLength(newAccountBlockchain),
                      !.handler = "App.createAccount"]]
              /\ pc' = [pc EXCEPT ![p] = "app_mnemonic"]
              /\ UNCHANGED resetTimers
  /\ UNCHANGED <<accounts, transactions, txHeap, result, netlog, chainBal, clock,
                 handed>>

\* resumption after generateMnemonic: the call of walletManager.createAccount
\* (lines 62-67) up to its await
AppMnemonicResume(p) ==
  /\ pc[p] = "app_mnemonic"
  /\ \E mnemonic \in Mnemonics :
       CreateAccountChecks(p, frame[p].name, frame[p].blockchain, mnemonic,
                           frame[p].accountIndex, "App.createAccount")
  /\ UNCHANGED <<transactions, txHeap, chainBal, clock, uiVars, handed>>

\* the handler after `await walletManager.createAccount(...)`: lines 69-73 or
\* the catch (74-76), then finally (77-82)
AppCreateAccountSettled(p) ==
  /\ pc[p] = "done"
  /\ frame[p].handler = "App.createAccount"
  /\ pc' = [pc EXCEPT ![p] = "idle"]
  /\ frame' = [frame EXCEPT ![p] = NoFrame]
  /\ result' = [result EXCEPT ![p] = NoResult]
  /\ netlog' = [netlog EXCEPT ![p] = <<>>]
  /\ resetTimers' = resetTimers + 1
  /\ UNCHANGED <<accounts, transactions, txHeap, chainBal, clock, isProcessingRef,
                 handed>>

\* the setTimeout callback of lines 80-82
ResetTimerFires ==
  /\ resetTimers > 0
  /\ resetTimers' = resetTimers - 1
  /\ isProcessingRef' = FALSE
  /\ UNCHANGED <<accounts, transactions, txHeap, pc, frame, result, netlog,
                 chainBal, clock, handed>>

\* ------------------------------------------- getAccounts, getTransactions
AccountIdArguments ==
  {NoArgument, EmptyId} \cup {IdArgument(c, i) : c \in Chains, i \in 0..MaxIndex}

\* line 375, `if (accountId)`: undefined and "" are falsy
truthy(accountId) == accountId.arg = "id"

\* lines 181-183, accounts.find(account => account.id === id): the position of
\* the first match, 0 for undefined
getAccount(id) ==
  IF \E i \in DOMAIN accounts : accounts[i].id = id
    THEN CHOOSE i \in DOMAIN accounts :
           /\ accounts[i].id = id
           /\ \A j \in 1..(i - 1) : accounts[j].id # id
    ELSE 0

\* slip: the Ledger filtered by recipient
getTransactionsByRecipient(accountId) ==
  IF truthy(accountId)
    THEN LET account == getAccount(accountId.id)
         IN IF account = 0 THEN [array |-> "new", entries |-> <<>>]
            ELSE [array |-> "new",
                  entries |-> SelectSeq(transactions,
                     LAMBDA tx : txHeap[tx].to = accounts[account].address)]
  ELSE [array |-> "transactions", entries |-> <<>>]

\* lines 374-383: a new array for an id, this.transactions itself otherwise
getTransactions(accountId) ==
  IF truthy(accountId)
    THEN LET account == getAccount(accountId.id)
         IN IF account = 0 THEN [array |-> "new", entries |-> <<>>]
            ELSE [array |-> "new",
                  entries |-> SelectSeq(transactions,
                     LAMBDA tx : txHeap[tx].from = accounts[account].address)]
  ELSE [array |-> "transactions", entries |-> <<>>]

\* lines 176-178: getAccounts returns this.accounts
GetAccountsCall(p) ==
  /\ pc[p] = "idle"
  /\ frame' = [frame EXCEPT ![p] = [NoFrame EXCEPT !.op = "getAccounts"]]
  /\ handed' = [handed EXCEPT ![p] = [array |-> "accounts", entries |-> <<>>]]
  /\ result' = [result EXCEPT ![p] = Returned(0)]
  /\ pc' = [pc EXCEPT ![p] = "done"]
  /\ UNCHANGED <<accounts, transactions, txHeap, netlog, chainBal, clock, uiVars>>

GetTransactionsCall(p, accountIds) ==
  /\ pc[p] = "idle"
  /\ \E accountId \in accountIds :
       /\ frame' = [frame EXCEPT ![p] =
            [NoFrame EXCEPT !.op = "getTransactions", !.accountId = accountId]]
       /\ handed' = [handed EXCEPT ![p] = getTransactions(accountId)]
  /\ result' = [result EXCEPT ![p] = Returned(0)]
  /\ pc' = [pc EXCEPT ![p] = "done"]
  /\ UNCHANGED <<accounts, transactions, txHeap, netlog, chainBal, clock, uiVars>>

\* what a caller reads in the array it holds
Contents(array) ==
  IF array.array = "transactions" THEN transactions ELSE array.entries

\* a caller writing through what it was handed. The arrays are plain
\* JavaScript arrays and the entries plain objects, so whoever holds
\* this.accounts or this.transactions can push and pop, and whoever holds an
\* array of Transactions can assign to their fields.
CallerPushesAccount(p) ==
  /\ pc[p] = "done" /\ handed[p].array = "accounts"
  /\ accounts # <<>>
  /\ Len(accounts) + Cardinality({q \in Procs : pc[q] = "create_seed"}) < MaxAccounts
  /\ accounts' = Append(accounts, accounts[1])
  /\ UNCHANGED <<transactions, txHeap, pc, frame, result, netlog, chainBal, clock,
                 uiVars, handed>>

CallerPopsTransaction(p) ==
  /\ pc[p] = "done" /\ handed[p].array = "transactions"
  /\ transactions # <<>>
  /\ transactions' = SubSeq(transactions, 1, Len(transactions) - 1)
  /\ UNCHANGED <<accounts, txHeap, pc, frame, result, netlog, chainBal, clock,
                 uiVars, handed>>

CallerAltersTransaction(p) ==
  /\ pc[p] = "done" /\ handed[p].array \in {"transactions", "new"}
  /\ \E k \in DOMAIN Contents(handed[p]) :
       LET tx == Contents(handed[p])[k]
       IN /\ txHeap[tx].status = "failed"
          /\ txHeap' = [txHeap EXCEPT ![tx].status = "confirmed"]
  /\ UNCHANGED <<accounts, transactions, pc, frame, result, netlog, chainBal, clock,
                 uiVars, handed>>

\* ----------------------------------------------------------- specifications
SendResume(p) ==
  \/ EvmBalanceResume(p)
  \/ EvmSubmitResume(p)
  \/ EvmWaitResume(p)
  \/ SolBalanceResume(p)
  \/ SolBlockhashResume(p)
  \/ SolSubmitResume(p)
  \/ SolConfirmResume(p)
  \/ SendRefreshResume(p)

\* createAccount is called only when no other createAccount is suspended
SerialCreateAccountCall(p, names, indices) ==
  /\ InFlight("createAccount") = 0
  /\ CreateAccountCall(p, names, indices)

\* sends issued at any time, also while other calls are suspended, all
\* within one millisecond; one account per chain
Next ==
  \E p \in Procs :
    \/ SerialCreateAccountCall(p, CoreNames, CoreIndices)
    \/ CreateAccountResume(p)
    \/ SendTransactionCall(p, CoreToAddresses, CoreAmounts, MaxTx, SameTick)
    \/ SendResume(p)
    \/ Settled(p)

Spec == Init /\ [][Next]_vars

\* account creations over all names and indices, issued at any time
NextRegistry ==
  \E p \in Procs :
    \/ CreateAccountCall(p, Names, Indices)
    \/ CreateAccountResume(p)
    \/ Settled(p)

SpecRegistry == InitRegistry /\ [][NextRegistry]_vars

\* account creations over all names and indices, one at a time
NextSerial ==
  \E p \in Procs :
    \/ SerialCreateAccountCall(p, Names, Indices)
    \/ CreateAccountResume(p)
    \/ Settled(p)

SpecSerial == InitRegistry /\ [][NextSerial]_vars

\* one caller that awaits every call, over all recipient and amount strings
NextInputs ==
  \/ CreateAccountCall(1, CoreNames, CoreIndices)
  \/ CreateAccountResume(1)
  \/ SendTransactionCall(1, ToAddresses, Amounts, MaxTxInputs, Ticks)
  \/ SendResume(1)
  \/ Settled(1)

SpecInputs == Init /\ [][NextInputs]_vars

\* one caller that awaits every call, with stored key material overwritten
\* at any time
NextTamper ==
  \/ CreateAccountCall(1, CoreNames, CoreIndices)
  \/ CreateAccountResume(1)
  \/ SendTransactionCall(1, CoreToAddresses, CoreAmounts, MaxTx, SameTick)
  \/ SendResume(1)
  \/ Settled(1)
  \/ \E i \in 1..MaxAccounts : AlterPrivateKey(i)

SpecTamper == Init /\ [][NextTamper]_vars

\* sends issued at any time, each network request of a send answered in the
\* end, with success or with failure
NextLive ==
  \E p \in Procs :
    \/ SerialCreateAccountCall(p, CoreNames, CoreIndices)
    \/ CreateAccountResume(p)
    \/ SendTransactionCall(p, CoreToAddresses, CoreAmounts, MaxTxInputs, SameTick)
    \/ SendResume(p)
    \/ Settled(p)

NetworkAnswers == \A p \in Procs : WF_vars(SendResume(p))

SpecLive == Init /\ [][NextLive]_vars /\ NetworkAnswers

\* sends issued at any time while the clock advances, from accounts the
\* networks hold no funds for: each send ends at its balance query
NextClock ==
  \E p \in Procs :
    \/ SerialCreateAccountCall(p, CoreNames, CoreIndices)
    \/ CreateAccountResume(p)
    \/ SendTransactionCall(p, CoreToAddresses, CoreAmounts, MaxTx, Ticks)
    \/ EvmBalanceResume(p)
    \/ SolBalanceResume(p)
    \/ Settled(p)

SpecClock == InitRegistry /\ [][NextClock]_vars

\* the core's operations called one after another on one slot, the accessors
\* called on the other at any time
NextLists ==
  \/ CreateAccountCall(1, CoreNames, CoreIndices)
  \/ CreateAccountResume(1)
  \/ SendTransactionCall(1, CoreToAddresses, CoreAmounts, MaxTx, SameTick)
  \/ SendResume(1)
  \/ RequestSolanaAirdropCall(1)
  \/ AirdropRequestResume(1)
  \/ AirdropConfirmResume(1)
  \/ AirdropRefreshResume(1)
  \/ GetAccountsCall(2)
  \/ GetTransactionsCall(2, AccountIdArguments)
  \/ \E p \in Procs : Settled(p)

SpecLists == Init /\ [][NextLists]_vars

\* the same without the faucet, the caller of the accessors writing through
\* the arrays it holds
NextAlias ==
  \/ CreateAccountCall(1, CoreNames, CoreIndices)
  \/ CreateAccountResume(1)
  \/ SendTransactionCall(1, CoreToAddresses, CoreAmounts, MaxTxInputs, SameTick)
  \/ SendResume(1)
  \/ GetAccountsCall(2)
  \/ GetTransactionsCall(2, AccountIdArguments)
  \/ CallerPushesAccount(2)
  \/ CallerPopsTransaction(2)
  \/ CallerAltersTransaction(2)
  \/ \E p \in Procs : Settled(p)

SpecAlias == Init /\ [][NextAlias]_vars

\* account creations over two phrases and all names, issued at any time
NextDerive ==
  \E p \in Procs :
    \/ CreateAccountCallWith(p, Names, CoreIndices, AllMnemonics)
    \/ CreateAccountResume(p)
    \/ Settled(p)

SpecDerive == InitRegistry /\ [][NextDerive]_vars

\* balance queries and airdrops issued at any time, one account per chain
NextFaucet ==
  \E p \in Procs :
    \/ SerialCreateAccountCall(p, CoreNames, CoreIndices)
    \/ CreateAccountResume(p)
    \/ GetBalanceCall(p)
    \/ GetBalanceResume(p)
    \/ RequestSolanaAirdropCall(p)
    \/ AirdropRequestResume(p)
    \/ AirdropConfirmResume(p)
    \/ AirdropRefreshResume(p)
    \/ Settled(p)

SpecFaucet == Init /\ [][NextFaucet]_vars

\* account creations through the App's handler only
NextApp ==
  \/ \E p \in Procs :
       \/ AppCreateAccount(p, Names)
       \/ AppMnemonicResume(p)
       \/ CreateAccountResume(p)
       \/ AppCreateAccountSettled(p)
  \/ ResetTimerFires

SpecApp == InitRegistry /\ [][NextApp]_vars

TypeOK ==
  /\ Len(accounts) <= MaxAccounts
  /\ Len(txHeap) <= MaxTx
  /\ \A p \in Procs : pc[p] \in {"idle", "done", "create_seed", "evm_balance", "evm_submit",
        "evm_wait", "sol_balance", "sol_blockhash", "sol_submit", "sol_confirm",
        "refresh", "app_mnemonic", "balance", "airdrop_request",
        "airdrop_confirm", "airdrop_refresh"}
  /\ \A a \in DOMAIN chainBal : chainBal[a] \in 0..MaxBal
  /\ isProcessingRef \in BOOLEAN
  /\ resetTimers \in 0..1
  /\ \A p \in Procs :
       handed[p].array \in {"none", "accounts", "transactions", "new"}

\* ------------------------------------------------------------------ claims
IsSend(p) == frame[p].op = "sendTransaction"
IsCreate(p) == frame[p].op = "createAccount"
\* number of Ledger entries that are the Transaction object r
Count(r) == Cardinality({i \in DOMAIN transactions : transactions[i] = r})
Suspended(p) == pc[p] \notin {"idle", "done"}

\* C1: when every createAccount call completes before the next one starts, no
\* two accounts of the registry have the same id and no two accounts on the
\* same chain have the same name.
UniqueIdsAndNames ==
  \A i, j \in DOMAIN accounts :
    i # j =>
      /\ accounts[i].id # accounts[j].id
      /\ accounts[i].blockchain = accounts[j].blockchain
           => accounts[i].name # accounts[j].name

\* two accounts on one chain are registered and a further call was rejected
UniqueIdsAndNamesWitness ==
  /\ Len(accounts) = 2
  /\ accounts[1].blockchain = accounts[2].blockchain
  /\ \E p \in Procs : pc[p] = "done" /\ IsCreate(p) /\ result[p].kind = "threw"
        /\ frame[p].blockchain = accounts[1].blockchain

\* C2: a createAccount call suspended at the seed computation has passed both
\* uniqueness checks, and its resumption appends its account without looking
\* at the registry again, so two calls for the same chain and index issued
\* without awaiting both append: two accounts with one id become reachable.
ResumeAppendsUnchecked ==
  [][\A p \in Procs :
       (pc[p] = "create_seed" /\ pc'[p] # "create_seed"
          /\ frame[p].accountIndex >= 0)
       => /\ Len(accounts') = Len(accounts) + 1
          /\ accounts'[Len(accounts')].id =
               AccountId(frame[p].blockchain, frame[p].accountIndex)
          /\ result'[p].kind = "returned"]_vars

DuplicateIdReached ==
  \E i, j \in DOMAIN accounts : i # j /\ accounts[i].id = accounts[j].id

\* C3: every sendTransaction call that passed pre-flight validation appends
\* its Transaction to the Ledger exactly once: at most once while the call is
\* suspended, exactly once as soon as the call has completed.
AppendedExactlyOnce ==
  \A r \in DOMAIN txHeap :
    /\ Count(r) <= 1
    /\ (~\E p \in Procs : Suspended(p) /\ frame[p].tx = r) => Count(r) = 1

\* a send that raised after its submission, and one that returned, both recorded
AppendedExactlyOnceWitness ==
  /\ \E p \in Procs : /\ pc[p] = "done" /\ IsSend(p) /\ frame[p].tx # 0
                      /\ result[p].kind = "threw"
                      /\ txHeap[frame[p].tx].hash # ""
                      /\ Count(frame[p].tx) = 1
  /\ \E q \in Procs : /\ pc[q] = "done" /\ IsSend(q) /\ frame[q].tx # 0
                      /\ result[q].kind = "returned"
                      /\ Count(frame[q].tx) = 1

\* C4: a Transaction is pending until its call sets its status, its status
\* changes only from pending and only to confirmed or failed, and a completed
\* call leaves it confirmed or failed.
StatusChangesOnce ==
  /\ [](\A p \in Procs :
          (IsSend(p) /\ frame[p].tx # 0) =>
            /\ pc[p] \in {"evm_balance", "evm_submit", "evm_wait", "sol_balance",
                          "sol_blockhash", "sol_submit", "sol_confirm"}
                 => txHeap[frame[p].tx].status = "pending"
            /\ pc[p] \in {"refresh", "done"}
                 => txHeap[frame[p].tx].status \in {"confirmed", "failed"})
  /\ [][\A r \in DOMAIN txHeap :
          txHeap'[r].status # txHeap[r].status
            => /\ txHeap[r].status = "pending"
               /\ txHeap'[r].status \in {"confirmed", "failed"}]_vars

\* a confirmed Transaction whose call returned after a failed balance refresh
StatusChangesOnceWitness ==
  \E p \in Procs :
    /\ pc[p] = "done" /\ IsSend(p) /\ frame[p].tx # 0
    /\ txHeap[frame[p].tx].status = "confirmed"
    /\ ~netlog[p][Len(netlog[p])].reply.ok

\* C5 (as claimed): once a sendTransaction call that passed pre-flight
\* validation has completed, returning or raising, it has queried the Balance
\* Oracle for the sender's balance.
RefreshedAfterEverySend ==
  \A p \in Procs :
    (pc[p] = "done" /\ IsSend(p) /\ frame[p].tx # 0)
      => \E k \in DOMAIN netlog[p] : netlog[p][k].via = "oracle"

InvalidParametersRejected ==
  [][\A p \in Procs :
       (/\ pc[p] = "idle" /\ pc'[p] # "idle"
        /\ frame'[p].op = "sendTransaction"
        /\ \/ frame'[p].to = EmptyString
           \/ frame'[p].amount.kind \in {"empty", "zero", "neg"})
       => /\ pc'[p] = "done"
          /\ result'[p] = Threw(ErrInvalidParams)
          /\ netlog'[p] = <<>>
          /\ frame'[p].tx = 0
          /\ UNCHANGED <<accounts, transactions, txHeap>>]_vars

\* a zero amount to a well-formed address was rejected while the Ledger has an entry
InvalidParametersRejectedWitness ==
  \E p \in Procs :
    /\ pc[p] = "done" /\ IsSend(p)
    /\ frame[p].amount.kind = "zero"
    /\ frame[p].to.len = 40 /\ frame[p].to.fmt = "0xhex"
    /\ result[p] = Threw(ErrInvalidParams)
    /\ transactions # <<>>

\* C8: a send that passed the parameter validation, with a recipient that is
\* malformed for the sender's chain, has completed by raising the chain's
\* address-format error, with no network request issued, no signing key built
\* and no Transaction created; with a well-formed recipient it has created its
\* Transaction and raises no address-format error.
MalformedAddressRejected ==
  \A p \in Procs :
    (/\ IsSend(p)
     /\ frame[p].to # EmptyString
     /\ frame[p].amount.kind \in {"nan", "dec"})
    => LET f == frame[p]
           wellFormed == IF f.blockchain = "ethereum"
                           THEN f.to.fmt = "0xhex" /\ f.to.len = 40
                           ELSE f.to.fmt = "b58" /\ f.to.len = 32
       IN IF wellFormed
            THEN /\ f.tx # 0
                 /\ result[p].error \notin
                      {ErrInvalidEthereumAddress, ErrInvalidSolanaAddress}
            ELSE /\ pc[p] = "done"
                 /\ result[p] = Threw(IF f.blockchain = "ethereum"
                                        THEN ErrInvalidEthereumAddress
                                        ELSE ErrInvalidSolanaAddress)
                 /\ netlog[p] = <<>>
                 /\ f.signer = NoAddress
                 /\ f.tx = 0

\* an EVM send to 0x and 41 hex digits was rejected
MalformedAddressRejectedWitness ==
  \E p \in Procs :
    /\ pc[p] = "done" /\ IsSend(p) /\ frame[p].blockchain = "ethereum"
    /\ frame[p].to.fmt = "0xhex" /\ frame[p].to.len = 41
    /\ result[p] = Threw(ErrInvalidEthereumAddress)

\* C9: a Solana send whose regenerated public key differs from the account's
\* address raises the key-mismatch error with no network request issued and
\* its Transaction in the Ledger as failed; and no Solana submission is ever
\* signed by a keypair whose public key is not the sender's address.
KeyMismatchFails ==
  /\ \A p \in Procs :
       (/\ IsSend(p) /\ frame[p].blockchain = "solana" /\ frame[p].tx # 0
        /\ frame[p].signer # txHeap[frame[p].tx].from)
       => /\ pc[p] = "done"
          /\ result[p].kind = "threw"
          /\ result[p].error.msg = "Derived keypair doesn't match account address"
          /\ netlog[p] = <<>>
          /\ txHeap[frame[p].tx].status = "failed"
          /\ Count(frame[p].tx) = 1
  /\ \A p \in Procs : \A k \in DOMAIN netlog[p] :
       (frame[p].blockchain = "solana" /\ netlog[p][k].call = "sendTransaction")
         => netlog[p][k].signer = txHeap[frame[p].tx].from

\* a Solana account's key was overwritten and a send from it was refused
KeyMismatchFailsWitness ==
  \E p \in Procs :
    /\ pc[p] = "done" /\ IsSend(p) /\ frame[p].blockchain = "solana"
    /\ accounts[frame[p].from].privateKey = toHex(AlteredKeyBytes)
    /\ frame[p].tx # 0
    /\ frame[p].signer = SolAddressOf(AlteredKeyBytes)
    /\ result[p].kind = "threw"

\* C10: a createAccount call made while the registry holds an account with
\* the same chain and index raises the duplicate-index error in the step
\* that calls it, whatever the name.
DuplicateIndexRejected ==
  [][\A p \in Procs :
       (/\ pc[p] = "idle" /\ pc'[p] # "idle"
        /\ frame'[p].op = "createAccount"
        /\ \E i \in DOMAIN accounts :
             /\ accounts[i].blockchain = frame'[p].blockchain
             /\ accounts[i].derivationPath.index = frame'[p].accountIndex)
       => /\ pc'[p] = "done"
          /\ result'[p] = Threw(ErrDuplicateIndex)]_vars

\* the rejected call passed a name that no account has
DuplicateIndexRejectedWitness ==
  \E p \in Procs :
    /\ pc[p] = "done" /\ IsCreate(p)
    /\ result[p] = Threw(ErrDuplicateIndex)
    /\ accounts # <<>>
    /\ \A i \in DOMAIN accounts : accounts[i].name # frame[p].name

\* C11: a createAccount call made while the registry holds an account with
\* the same chain and name, for an index no account of that chain has, raises
\* in the step that calls it the duplicate-name error, whose message differs
\* from the message of the duplicate-index error.
DuplicateNameRejected ==
  [][\A p \in Procs :
       (/\ pc[p] = "idle" /\ pc'[p] # "idle"
        /\ frame'[p].op = "createAccount"
        /\ \E i \in DOMAIN accounts :
             /\ accounts[i].blockchain = frame'[p].blockchain
             /\ accounts[i].name = frame'[p].name
        /\ ~\E i \in DOMAIN accounts :
             /\ accounts[i].blockchain = frame'[p].blockchain
             /\ accounts[i].derivationPath.index = frame'[p].accountIndex)
       => /\ pc'[p] = "done"
          /\ result'[p].kind = "threw"
          /\ result'[p].error.msg = "Account with name for blockchain already exists"
          /\ result'[p].error # ErrDuplicateIndex]_vars

\* account "A" is at index 0 and a call for "A" at index 1 on its chain was rejected
DuplicateNameRejectedWitness ==
  \E p \in Procs :
    /\ pc[p] = "done" /\ IsCreate(p)
    /\ result[p].kind = "threw"
    /\ result[p].error.msg = "Account with name for blockchain already exists"
    /\ frame[p].accountIndex = 1
    /\ \E i \in DOMAIN accounts :
         /\ accounts[i].blockchain = frame[p].blockchain
         /\ accounts[i].name = frame[p].name
         /\ accounts[i].derivationPath.index = 0

\* C12: no step of a createAccount call that fails changes the account list:
\* neither the step that runs the two checks (whether it raises or suspends)
\* nor the resumption that raises a derivation error.
FailedCreateLeavesRegistry ==
  [][\A p \in Procs :
       (/\ frame'[p].op = "createAccount"
        /\ pc'[p] # pc[p]
        /\ result'[p].kind = "threw" \/ pc'[p] = "create_seed")
       => accounts' = accounts]_vars

\* each of the three failures has happened with an account registered
FailedCreateLeavesRegistryWitness ==
  /\ accounts # <<>>
  /\ \E p \in Procs : /\ pc[p] = "done" /\ IsCreate(p)
                      /\ result[p] = Threw(ErrDerivation)
  /\ \E q \in Procs : /\ pc[q] = "done" /\ IsCreate(q)
                      /\ result[q].error \in {ErrDuplicateIndex, ErrDuplicateName}

\* C13: in every registry state reached through the App's createAccount
\* handler, the k-th account created on a chain has derivation index k-1 and
\* the id made of the chain and k-1: per chain the indices are exactly
\* 0..n-1, each the count of the chain's accounts when it was created.
DenseIndices ==
  \A c \in Chains :
    LET onChain == SelectSeq(accounts, LAMBDA a : a.blockchain = c)
    IN \A k \in DOMAIN onChain :
         /\ onChain[k].derivationPath.index = k - 1
         /\ onChain[k].id = <<c, k - 1>>

\* a second account was created on a chain that had one
DenseIndicesWitness ==
  /\ Len(accounts) >= 2
  /\ accounts[1].blockchain = accounts[2].blockchain
  /\ accounts[2].derivationPath.index = 1
  /\ isProcessingRef

\* C14: with createAccount calls made one at a time and a non-negative index,
\* a call is rejected in the step that calls it exactly when an account on the
\* same chain has its index or its name, and otherwise suspends and, resumed,
\* returns with its account appended; accounts on the other chain play no part.
SucceedsIffFreeOnChain ==
  [][\A p \in Procs :
       /\ (/\ pc[p] = "idle" /\ pc'[p] # "idle"
           /\ frame'[p].op = "createAccount"
           /\ frame'[p].accountIndex >= 0)
          => LET f == frame'[p]
                 taken == \E i \in DOMAIN accounts :
                            /\ accounts[i].blockchain = f.blockchain
                            /\ \/ accounts[i].derivationPath.index = f.accountIndex
                               \/ accounts[i].name = f.name
             IN IF taken
                  THEN pc'[p] = "done" /\ result'[p].kind = "threw"
                  ELSE pc'[p] = "create_seed"
       /\ (/\ pc[p] = "create_seed" /\ pc'[p] # "create_seed"
           /\ frame[p].accountIndex >= 0)
          => /\ result'[p].kind = "returned"
             /\ Len(accounts') = Len(accounts) + 1
             /\ SubSeq(accounts', 1, Len(accounts)) = accounts
             /\ accounts'[Len(accounts')].blockchain = frame[p].blockchain
             /\ accounts'[Len(accounts')].name = frame[p].name
             /\ accounts'[Len(accounts')].derivationPath.index = frame[p].accountIndex]_vars

\* the same name and the same index are registered once on each chain
SucceedsIffFreeOnChainWitness ==
  /\ Len(accounts) = 2
  /\ accounts[1].blockchain # accounts[2].blockchain
  /\ accounts[1].name = accounts[2].name
  /\ accounts[1].derivationPath.index = accounts[2].derivationPath.index
  /\ \E p \in Procs : pc[p] = "done" /\ IsCreate(p) /\ result[p].kind = "returned"

\* C19: the account a createAccount call returned has the id made of the
\* call's chain and index, balance "0", the call's name, chain and mnemonic,
\* and the chain's path template with the call's index as last component
\* (not hardened on the EVM chain, hardened on the Solana chain); on the EVM
\* chain its publicKey is its address.
CreatedAccountFields ==
  \A p \in Procs :
    (pc[p] = "done" /\ IsCreate(p) /\ result[p].kind = "returned")
    => LET f == frame[p]
           account == accounts[result[p].value]
       IN /\ account.id = <<f.blockchain, f.accountIndex>>
          /\ account.balance = [units |-> 0, point |-> FALSE]
          /\ account.name = f.name
          /\ account.blockchain = f.blockchain
          /\ account.mnemonic = f.mnemonic
          /\ account.derivationPath.purpose = 44
          /\ account.derivationPath.account = 0
          /\ account.derivationPath.change = 0
          /\ account.derivationPath.index = f.accountIndex
          /\ account.derivationPath.coin =
               (IF f.blockchain = "ethereum" THEN 60 ELSE 501)
          /\ account.derivationPath.changeHardened = (f.blockchain = "solana")
          /\ account.derivationPath.indexHardened = (f.blockchain = "solana")
          /\ f.blockchain = "ethereum" => account.publicKey = account.address

\* a Solana account at index 1 was returned while another call was suspended
CreatedAccountFieldsWitness ==
  \E p \in Procs :
    /\ pc[p] = "done" /\ IsCreate(p) /\ result[p].kind = "returned"
    /\ frame[p].blockchain = "solana" /\ frame[p].accountIndex = 1
    /\ \E q \in Procs : pc[q] = "create_seed"

\* C15: a Transaction has a hash exactly when the submission request of its
\* call was answered successfully: while the call waits for the confirmation
\* the hash is already set, every confirmed Transaction has one, and a
\* Transaction whose call ended without a successful submission has none.
HashIffSubmitted ==
  /\ \A p \in Procs :
       (IsSend(p) /\ frame[p].tx # 0)
       => /\ (txHeap[frame[p].tx].hash # "")
               <=> \E k \in DOMAIN netlog[p] :
                     /\ netlog[p][k].call = "sendTransaction"
                     /\ netlog[p][k].reply.ok
          /\ pc[p] \in {"evm_wait", "sol_confirm"} => txHeap[frame[p].tx].hash # ""
          /\ pc[p] \in {"evm_balance", "evm_submit", "sol_balance",
                        "sol_blockhash", "sol_submit"}
               => txHeap[frame[p].tx].hash = ""
  /\ \A r \in DOMAIN txHeap : txHeap[r].status = "confirmed" => txHeap[r].hash # ""

\* one send failed at its submission and has no hash, another is recorded as
\* failed after its submission and has one
HashIffSubmittedWitness ==
  /\ \E p \in Procs :
       /\ pc[p] = "done" /\ IsSend(p) /\ frame[p].tx # 0
       /\ netlog[p][Len(netlog[p])].call = "sendTransaction"
       /\ ~netlog[p][Len(netlog[p])].reply.ok
       /\ txHeap[frame[p].tx].hash = ""
  /\ \E r \in DOMAIN txHeap : txHeap[r].status = "failed" /\ txHeap[r].hash # ""

\* C16 (as claimed): every Transaction in the Ledger has an amount that is a
\* positive decimal number.
RecordedAmountsPositive ==
  \A i \in DOMAIN transactions :
    /\ txHeap[transactions[i]].amount.kind = "dec"
    /\ txHeap[transactions[i]].amount.tenths > 0

IsGetBalance(p) == frame[p].op = "getBalance"
IsAirdrop(p) == frame[p].op = "requestSolanaAirdrop"

\* C17: a getBalance call always ends by returning; when its address is not
\* a public key or its network query failed it returns "0"; and none of its
\* steps changes the account list, the Ledger or a Transaction.
GetBalanceNeverRaises ==
  /\ [](\A p \in Procs :
          (IsGetBalance(p) /\ pc[p] = "done")
          => /\ result[p].kind = "returned"
             /\ (netlog[p] = <<>> \/ ~netlog[p][Len(netlog[p])].reply.ok)
                  => result[p].balance = [units |-> 0, point |-> FALSE])
  /\ [][\A p \in Procs :
          (frame'[p].op = "getBalance" /\ pc'[p] # pc[p])
          => UNCHANGED <<accounts, transactions, txHeap>>]_vars

\* a query of a funded EVM address failed and one of a malformed Solana
\* address was not sent; both returned "0"
GetBalanceNeverRaisesWitness ==
  /\ \E p \in Procs :
       /\ IsGetBalance(p) /\ pc[p] = "done" /\ frame[p].blockchain = "ethereum"
       /\ BalanceOnChain(frame[p].queried) > 0
       /\ ~netlog[p][1].reply.ok
       /\ result[p] = ReturnedBalance(BalanceZero)
  /\ \E q \in Procs :
       /\ IsGetBalance(q) /\ pc[q] = "done" /\ frame[q].blockchain = "solana"
       /\ netlog[q] = <<>>
       /\ result[q] = ReturnedBalance(BalanceZero)

\* C18: a requestSolanaAirdrop call that returned has had its faucet request
\* and then its confirmation answered, queried the balance only after that,
\* stored the answer in the account and returned the faucet's signature; one
\* that raised issued no balance query; an account's cached balance changes
\* only in the step in which such a call returns, and no step of the call
\* changes the Ledger or a Transaction.
AirdropReturnsOrPropagates ==
  /\ [](\A p \in Procs :
          (IsAirdrop(p) /\ pc[p] = "done")
          => IF result[p].kind = "returned"
               THEN /\ frame[p].blockchain = "solana"
                    /\ Len(netlog[p]) = 3
                    /\ netlog[p][1].call = "requestAirdrop" /\ netlog[p][1].reply.ok
                    /\ netlog[p][2].call = "confirmTransaction" /\ netlog[p][2].reply.ok
                    /\ netlog[p][3].call = "getBalance"
                    /\ result[p].value = netlog[p][1].reply.value
               ELSE /\ result[p].kind = "threw"
                    /\ \A k \in DOMAIN netlog[p] : netlog[p][k].call # "getBalance")
  /\ [][/\ \A i \in DOMAIN accounts :
            accounts'[i].balance # accounts[i].balance
            => \E p \in Procs :
                 /\ pc[p] = "airdrop_refresh" /\ frame[p].from = i
                 /\ result'[p].kind = "returned"
                 /\ accounts'[i].balance =
                      (IF netlog'[p][3].reply.ok
                         THEN formatSol(netlog'[p][3].reply.value)
                         ELSE [units |-> 0, point |-> FALSE])
        /\ \A p \in Procs :
            (frame'[p].op = "requestSolanaAirdrop" /\ pc'[p] # pc[p])
            => UNCHANGED <<transactions, txHeap>>]_vars

\* one airdrop returned with the granted balance cached, another raised
\* because a network request of it failed
AirdropReturnsOrPropagatesWitness ==
  /\ \E p \in Procs :
       /\ IsAirdrop(p) /\ pc[p] = "done" /\ result[p].kind = "returned"
       /\ accounts[frame[p].from].balance.units > 0
  /\ \E q \in Procs :
       /\ IsAirdrop(q) /\ pc[q] = "done" /\ result[q] = Threw(ErrNetwork)
       /\ ~netlog[q][Len(netlog[q])].reply.ok

Submissions(p) == {k \in DOMAIN netlog[p] : netlog[p][k].call = "sendTransaction"}

\* C22: a send issues at most one submission request, and issues it only
\* after its balance query was answered with a balance not less than the
\* amount: none is issued before the answer, after a failed query or after an
\* answer below the amount.
QueryPrecedesSubmission ==
  \A p \in Procs :
    IsSend(p)
    => /\ Cardinality(Submissions(p)) <= 1
       /\ \A k \in Submissions(p) :
            /\ k > 1
            /\ netlog[p][1].call = "getBalance"
            /\ netlog[p][1].reply.ok
            /\ 10 * netlog[p][1].reply.value >= frame[p].amount.tenths
       /\ pc[p] \in {"evm_balance", "sol_balance"} => Submissions(p) = {}

\* a Solana send of half a lamport from a balance of one was submitted
QueryPrecedesSubmissionWitness ==
  \E p \in Procs :
    /\ IsSend(p) /\ pc[p] = "done" /\ frame[p].blockchain = "solana"
    /\ frame[p].amount.tenths = 5
    /\ Submissions(p) # {}
    /\ netlog[p][1].reply = Success(1)

\* C23: once the status of a send's Transaction is set, it is confirmed
\* exactly when the submission was answered successfully and the confirmation
\* request was answered with a receipt (EVM) or with no execution error
\* (Solana); otherwise it is failed.
ConfirmedIffNetworkConfirmed ==
  \A p \in Procs :
    (IsSend(p) /\ frame[p].tx # 0 /\ pc[p] \in {"refresh", "done"})
    => LET submitted == \E k \in Submissions(p) : netlog[p][k].reply.ok
           included == \E k \in DOMAIN netlog[p] :
                         \/ /\ netlog[p][k].call = "wait"
                            /\ netlog[p][k].reply.ok
                            /\ netlog[p][k].reply.value = 1
                         \/ /\ netlog[p][k].call = "confirmTransaction"
                            /\ netlog[p][k].reply.ok
                            /\ netlog[p][k].reply.value = 0
       IN IF submitted /\ included
            THEN txHeap[frame[p].tx].status = "confirmed"
            ELSE txHeap[frame[p].tx].status = "failed"

\* a Solana send whose confirmation reported an execution error is failed
ConfirmedIffNetworkConfirmedWitness ==
  \E p \in Procs :
    /\ IsSend(p) /\ pc[p] = "done" /\ frame[p].blockchain = "solana"
    /\ \E k \in DOMAIN netlog[p] :
         netlog[p][k].call = "confirmTransaction" /\ netlog[p][k].reply = Success(1)
    /\ txHeap[frame[p].tx].status = "failed"

NormalReturnIsConfirmed ==
  \A p \in Procs :
    (IsSend(p) /\ pc[p] = "done" /\ result[p].kind = "returned")
    => txHeap[result[p].value].status = "confirmed"

\* C26: when every network request of a send is answered in the end, a send
\* that passed validation and is suspended completes, by returning or by
\* raising, with its Transaction confirmed or failed and once in the Ledger.
SendCompletes ==
  \A p \in Procs :
    (IsSend(p) /\ Suspended(p))
    ~> (/\ IsSend(p) /\ pc[p] = "done" /\ frame[p].tx # 0
        /\ result[p].kind \in {"returned", "threw"}
        /\ txHeap[frame[p].tx].status \in {"confirmed", "failed"}
        /\ Count(frame[p].tx) = 1)

\* a send went through all its network requests and returned
SendCompletesWitness ==
  \E p \in Procs :
    /\ IsSend(p) /\ pc[p] = "done" /\ result[p].kind = "returned"
    /\ frame[p].blockchain = "solana"
    /\ Len(netlog[p]) = 5

\* the Transaction objects ever created, in the order their sends started,
\* carry non-decreasing timestamps and ids
StartOrderIsTimeOrder ==
  \A r, t \in DOMAIN txHeap :
    r < t => /\ txHeap[r].timestamp <= txHeap[t].timestamp
             /\ txHeap[r].id <= txHeap[t].id

\* C27 (as claimed): the Ledger is in non-decreasing order of timestamp and
\* of id, whatever the interleaving of the sends.
LedgerInTimestampOrder ==
  \A i, j \in DOMAIN transactions :
    i < j => /\ txHeap[transactions[i]].timestamp <= txHeap[transactions[j]].timestamp
             /\ txHeap[transactions[i]].id <= txHeap[transactions[j]].id

\* C27 (amended): timestamps and ids are non-decreasing in the order the sends
\* start, and a finishing send appends its Transaction at the end of the
\* Ledger; so the new entry is not older than any entry whose send started
\* before it, and the Ledger is in timestamp order between sends that finish
\* in the order they started.
LedgerOrderedInFinishOrder ==
  [][/\ StartOrderIsTimeOrder'
     /\ \A p \in Procs :
          (IsSend(p) /\ frame[p].tx # 0
             /\ Count(frame[p].tx) = 0 /\ Count(frame[p].tx)' = 1)
          => /\ transactions' = Append(transactions, frame[p].tx)
             /\ \A i \in DOMAIN transactions :
                  transactions[i] < frame[p].tx
                  => /\ txHeap[transactions[i]].timestamp
                          <= txHeap'[frame[p].tx].timestamp
                     /\ txHeap[transactions[i]].id <= txHeap'[frame[p].tx].id]_vars

\* two sends that finished in the order they started, the clock having
\* advanced between them, both not yet settled
LedgerOrderedInFinishOrderWitness ==
  /\ Len(transactions) = 2
  /\ transactions[1] < transactions[2]
  /\ txHeap[transactions[1]].timestamp < txHeap[transactions[2]].timestamp
  /\ \A p \in Procs : IsSend(p) /\ pc[p] = "done"

\* the units of the submission request a send issued, and the balance its own
\* query was answered with (-1 when the query failed or is unanswered)
SubmittedUnits(p) == netlog[p][CHOOSE k \in Submissions(p) : TRUE].units
QueriedBalance(p) ==
  IF netlog[p] # <<>> /\ netlog[p][1].call = "getBalance" /\ netlog[p][1].reply.ok
    THEN netlog[p][1].reply.value ELSE -1
\* the step in which a send issues its submission request
IssuesSubmission(p) == IsSend(p) /\ Submissions(p) = {} /\ Submissions(p)' # {}
MaxOf(a, b) == IF a >= b THEN a ELSE b

\* C28 (as claimed): a send issues its submission request only while the
\* account's balance on chain is at least the amount, and never while another
\* send from the same account is in flight with a submission issued when each
\* amount fits the balance queried but the two together exceed it.
SubmittedWithinBalance ==
  [][\A p \in Procs :
       IssuesSubmission(p)
       => /\ BalanceOnChain(txHeap[frame[p].tx].from) >= SubmittedUnits(p)'
          /\ \A q \in Procs \ {p} :
               (/\ IsSend(q) /\ Suspended(q) /\ frame[q].from = frame[p].from
                /\ Submissions(q) # {}
                /\ SubmittedUnits(q) <= QueriedBalance(q)
                /\ SubmittedUnits(p)' <= QueriedBalance(p)')
               => SubmittedUnits(p)' + SubmittedUnits(q)
                    <= MaxOf(QueriedBalance(p)', QueriedBalance(q))]_vars

\* C28 (amended): in every interleaving a send issues its submission request
\* only when its own balance query was answered, before that request, with a
\* balance not less than the amount; what other sends from the same account
\* have queried or submitted meanwhile is not looked at.
SubmittedOnOwnQuery ==
  [][\A p \in Procs :
       IssuesSubmission(p)
       => /\ QueriedBalance(p)' >= 0
          /\ 10 * QueriedBalance(p)' >= frame[p].amount.tenths
          /\ \A k \in Submissions(p)' : k > 1]_vars

\* two sends from the same account are in flight, each with a submission
\* issued for the whole balance its query reported
SubmittedOnOwnQueryWitness ==
  \E p, q \in Procs :
    /\ p # q /\ IsSend(p) /\ IsSend(q) /\ Suspended(p) /\ Suspended(q)
    /\ frame[p].from = frame[q].from
    /\ Submissions(p) # {} /\ Submissions(q) # {}
    /\ QueriedBalance(p) = MaxBal /\ QueriedBalance(q) = MaxBal
    /\ SubmittedUnits(p) + SubmittedUnits(q) > MaxBal

\* the slots in which the App's create-account handler is in progress, from
\* its guard to the end of its finally block
HandlersInFlight == {p \in Procs : frame[p].handler = "App.createAccount"}

\* C29: at most one run of the UI's create-account handler, and so at most
\* one createAccount call issued by it, is in flight; while one is in flight
\* the ref is set and no reset is pending, a pending reset (at most one) keeps
\* the ref set so that a click starts nothing, and no two accounts created
\* through the handler share an id.
SingleFlight ==
  /\ Cardinality(HandlersInFlight) <= 1
  /\ Cardinality({p \in Procs : pc[p] = "create_seed"}) <= 1
  /\ HandlersInFlight # {} => (isProcessingRef /\ resetTimers = 0)
  /\ resetTimers <= 1
  /\ resetTimers > 0 => isProcessingRef
  /\ \A i, j \in DOMAIN accounts : accounts[i].id = accounts[j].id => i = j

\* a createAccount call issued by the handler is suspended, after an earlier
\* creation through the handler and the reset that followed it
SingleFlightWitness ==
  /\ accounts # <<>>
  /\ \E p \in Procs :
       /\ pc[p] = "create_seed" /\ frame[p].handler = "App.createAccount"
       /\ frame[p].blockchain = accounts[1].blockchain
       /\ frame[p].accountIndex = 1

\* C30 (as claimed): when the create-account handler ends after createAccount
\* returned the new account, a balance query for that account's address has
\* been issued since its creation.
CreatedBalanceRefreshed ==
  [][\A p \in Procs :
       (/\ frame[p].handler = "App.createAccount" /\ pc[p] = "done"
        /\ result[p].kind = "returned" /\ pc'[p] = "idle")
       => \E k \in DOMAIN netlog[p] :
            /\ netlog[p][k].call = "getBalance"
            /\ netlog[p][k].address = accounts[result[p].value].address]_vars

\* the registry's entries, the cached balance aside, and the Ledger's entries
RegistryEntries == [i \in DOMAIN accounts |-> [accounts[i] EXCEPT !.balance = BalanceZero]]
LedgerEntries == [i \in DOMAIN transactions |-> txHeap[transactions[i]]]

\* C31 (as claimed): the entries of the registry and of the Ledger change only
\* in a step of a createAccount or sendTransaction call; nothing a caller was
\* handed lets it add, remove or alter an entry.
ListsChangeOnlyThroughCore ==
  [][(RegistryEntries' # RegistryEntries \/ LedgerEntries' # LedgerEntries)
     => \E p \in Procs :
          /\ pc'[p] # pc[p]
          /\ frame'[p].op \in {"createAccount", "sendTransaction"}]_vars

IsPrefix(s, t) == Len(s) <= Len(t) /\ \A i \in DOMAIN s : s[i] = t[i]

\* C32: in every step the registry's entries (their cached balance aside) and
\* the Ledger before the step are a prefix of those after it, no Transaction
\* in the Ledger changes in any field, and getAccounts hands out the list in
\* that order.
AppendOnly ==
  [][/\ IsPrefix(RegistryEntries, RegistryEntries')
     /\ IsPrefix(transactions, transactions')
     /\ \A i \in DOMAIN transactions :
          txHeap'[transactions[i]] = txHeap[transactions[i]]
     /\ \A p \in Procs :
          (pc[p] = "idle" /\ frame'[p].op = "getAccounts")
          => handed'[p].array = "accounts"]_vars

\* two accounts and two Ledger entries, one failed and one confirmed, after a
\* balance refresh changed a cached balance, the accessor's caller holding
\* the account list
AppendOnlyWitness ==
  /\ Len(accounts) = 2 /\ Len(transactions) = 2
  /\ txHeap[transactions[1]].status # txHeap[transactions[2]].status
  /\ \E i \in DOMAIN accounts : accounts[i].balance # BalanceZero
  /\ handed[2].array = "accounts"

\* the Ledger entries sent from `address`, in Ledger order
FromPositions(address) ==
  {i \in DOMAIN transactions : txHeap[transactions[i]].from = address}
EntriesFrom(address) ==
  [k \in 1..Cardinality(FromPositions(address)) |->
     transactions[CHOOSE i \in FromPositions(address) :
                    Cardinality({j \in FromPositions(address) : j < i}) = k - 1]]
AccountsWithId(id) == {i \in DOMAIN accounts : accounts[i].id = id}
\* what a query is to yield: the Ledger when no id counts as given, nothing
\* for an id no account has, the entries from the account's address otherwise
QueryAnswer(given, id) ==
  IF ~given THEN transactions
  ELSE IF AccountsWithId(id) = {} THEN <<>>
  ELSE EntriesFrom(accounts[CHOOSE i \in AccountsWithId(id) : TRUE].address)
\* the step in which getTransactions is called and returns
CallsGetTransactions(p) == pc[p] = "idle" /\ frame'[p].op = "getTransactions"

\* C33 (as claimed): getTransactions yields the whole Ledger when the
\* argument is left out and, for every string given as the id, the entries
\* sent from the address of the account with that id, in Ledger order, failed
\* ones included, or nothing when no account has that id.
GetTransactionsByGivenId ==
  [][\A p \in Procs :
       CallsGetTransactions(p)
       => Contents(handed'[p])
            = QueryAnswer(frame'[p].accountId.arg # "undefined",
                          frame'[p].accountId.id)]_vars

\* C33 (amended): the same, the empty string counting as no id: for it, as
\* for a call without argument, getTransactions yields the whole Ledger.
GetTransactionsByNonEmptyId ==
  [][\A p \in Procs :
       CallsGetTransactions(p)
       => Contents(handed'[p])
            = QueryAnswer(frame'[p].accountId.arg = "id",
                          frame'[p].accountId.id)]_vars

\* a query by id answered with a failed entry of that account, the Ledger
\* holding an entry of another account as well
GetTransactionsByNonEmptyIdWitness ==
  \E p \in Procs :
    /\ frame[p].op = "getTransactions" /\ pc[p] = "done"
    /\ frame[p].accountId.arg = "id"
    /\ Len(handed[p].entries) = 1
    /\ txHeap[handed[p].entries[1]].status = "failed"
    /\ Len(transactions) = 2

\* C34 (as claimed): every submission request of a Solana send carries at
\* least one lamport.
SolanaTransfersPositive ==
  \A p \in Procs :
    (IsSend(p) /\ frame[p].blockchain = "solana")
    => \A k \in Submissions(p) : netlog[p][k].units >= 1

====
